---- MODULE Spec2Model ----
(***************************************************************************)
(* Model of the Jicoo webhook receiver (app/api/jicoo/route.ts) and of the *)
(* runtime configuration it reads (lib/runtime-config.ts).                 *)
(*                                                                         *)
(* Strings are sequences of one-character strings, so that splitting,      *)
(* trimming, number parsing and hex decoding are computed the way the      *)
(* JavaScript runtime computes them.  A request body is a string of one    *)
(* opaque symbol whose JSON reading is given by JSONParse.                 *)
(***************************************************************************)
EXTENDS Integers, Sequences, FiniteSets, TLC

\* JavaScript null / undefined where a string is expected: a one-symbol
\* string no operation of the model produces.
NULL == <<"<null>">>

\* JavaScript null where an object is expected.
NullObject == [null |-> TRUE]

(***************************************************************************)
(* Text helpers (String.prototype.trim / split, template literals)         *)
(***************************************************************************)
DecDigits == <<"0", "1", "2", "3", "4", "5", "6", "7", "8", "9">>
LowerHex == DecDigits \o <<"a", "b", "c", "d", "e", "f">>
UpperHex == DecDigits \o <<"A", "B", "C", "D", "E", "F">>

Range(s) == {s[i] : i \in DOMAIN s}

IsDigit(c) == c \in Range(DecDigits)
IsHexDigit(c) == c \in Range(LowerHex) \cup Range(UpperHex)

DigitVal(c) == (CHOOSE i \in 1..10 : DecDigits[i] = c) - 1

HexVal(c) ==
    IF c \in Range(LowerHex)
    THEN (CHOOSE i \in 1..16 : LowerHex[i] = c) - 1
    ELSE (CHOOSE i \in 1..16 : UpperHex[i] = c) - 1

IsSpace(c) == c = " "

RECURSIVE TrimStart(_)
TrimStart(s) ==
    IF s # <<>> /\ IsSpace(Head(s)) THEN TrimStart(Tail(s)) ELSE s

RECURSIVE TrimEnd(_)
TrimEnd(s) ==
    IF s # <<>> /\ IsSpace(s[Len(s)]) THEN TrimEnd(SubSeq(s, 1, Len(s) - 1)) ELSE s

\* String.prototype.trim
Trim(s) == TrimEnd(TrimStart(s))

\* Position of the first occurrence of character c in s, 0 when there is none.
RECURSIVE IndexFrom(_, _, _)
IndexFrom(s, c, i) ==
    IF i > Len(s) THEN 0
    ELSE IF s[i] = c THEN i
    ELSE IndexFrom(s, c, i + 1)

IndexOf(s, c) == IndexFrom(s, c, 1)

\* String.prototype.split(c): the pieces between the occurrences of c.
RECURSIVE Split(_, _)
Split(s, c) ==
    LET i == IndexOf(s, c)
    IN  IF i = 0 THEN <<s>>
        ELSE <<SubSeq(s, 1, i - 1)>> \o Split(SubSeq(s, i + 1, Len(s)), c)

RECURSIVE Pow10(_)
Pow10(k) == IF k = 0 THEN 1 ELSE 10 * Pow10(k - 1)

\* Value of a string of decimal digits.
RECURSIVE DecValue(_)
DecValue(s) ==
    IF s = <<>> THEN 0
    ELSE 10 * DecValue(SubSeq(s, 1, Len(s) - 1)) + DigitVal(s[Len(s)])

\* Value of a string of hexadecimal digits.
RECURSIVE HexValue(_)
HexValue(s) ==
    IF s = <<>> THEN 0
    ELSE 16 * HexValue(SubSeq(s, 1, Len(s) - 1)) + HexVal(s[Len(s)])

AllDigits(s) == \A i \in DOMAIN s : IsDigit(s[i])
AllHexDigits(s) == \A i \in DOMAIN s : IsHexDigit(s[i])

\* Decimal digits of a natural number.
RECURSIVE NatToString(_)
NatToString(n) ==
    IF n < 10 THEN <<DecDigits[n + 1]>>
    ELSE NatToString(n \div 10) \o <<DecDigits[(n % 10) + 1]>>

\* The digits of n, left-padded with zeros to width k.
RECURSIVE PadDigits(_, _)
PadDigits(n, k) ==
    IF k = 0 THEN <<>>
    ELSE PadDigits(n \div 10, k - 1) \o <<DecDigits[(n % 10) + 1]>>

(***************************************************************************)
(* JavaScript numbers.  A finite number is the fraction n / 10^s kept in   *)
(* lowest terms of ten (s = 0 for an integer).                             *)
(***************************************************************************)
NaN == [kind |-> "NaN", n |-> 0, s |-> 0]
PosInfinity == [kind |-> "Infinity", n |-> 1, s |-> 0]
NegInfinity == [kind |-> "Infinity", n |-> -1, s |-> 0]

RECURSIVE Finite(_, _)
Finite(n, s) ==
    IF s > 0 /\ n % 10 = 0 THEN Finite(n \div 10, s - 1)
    ELSE [kind |-> "finite", n |-> n, s |-> s]

InfinityText == <<"I", "n", "f", "i", "n", "i", "t", "y">>

\* StrDecimalLiteral without its sign: digits [. digits] [e [+-] digits]
UnsignedDecimal(s) ==
    LET ePos == IF IndexOf(s, "e") # 0 THEN IndexOf(s, "e") ELSE IndexOf(s, "E")
        mant == IF ePos = 0 THEN s ELSE SubSeq(s, 1, ePos - 1)
        expo == IF ePos = 0 THEN <<>> ELSE SubSeq(s, ePos + 1, Len(s))
        eNeg == expo # <<>> /\ Head(expo) = "-"
        eDig == IF expo # <<>> /\ Head(expo) \in {"+", "-"} THEN Tail(expo) ELSE expo
        dot  == IndexOf(mant, ".")
        ip   == IF dot = 0 THEN mant ELSE SubSeq(mant, 1, dot - 1)
        fp   == IF dot = 0 THEN <<>> ELSE SubSeq(mant, dot + 1, Len(mant))
        e    == IF eNeg THEN 0 - DecValue(eDig) ELSE DecValue(eDig)
        m    == DecValue(ip \o fp)
        sc   == Len(fp) - e
    IN  IF \/ ~AllDigits(ip) \/ ~AllDigits(fp) \/ ip \o fp = <<>>
           \/ (ePos # 0 /\ (eDig = <<>> \/ ~AllDigits(eDig)))
        THEN NaN
        ELSE IF sc <= 0 THEN Finite(m * Pow10(0 - sc), 0)
        ELSE Finite(m, sc)

Negate(v) == [v EXCEPT !.n = 0 - v.n]

\* Number(string): the StringToNumber conversion.
StringToNumber(text) ==
    LET s == Trim(text)
        signed == s # <<>> /\ Head(s) \in {"+", "-"}
        body == IF signed THEN Tail(s) ELSE s
        mag == IF body = InfinityText THEN PosInfinity ELSE UnsignedDecimal(body)
    IN  IF s = <<>> THEN Finite(0, 0)
        ELSE IF Len(s) > 2 /\ s[1] = "0" /\ s[2] \in {"x", "X"}
        THEN IF AllHexDigits(SubSeq(s, 3, Len(s)))
             THEN Finite(HexValue(SubSeq(s, 3, Len(s))), 0) ELSE NaN
        ELSE IF signed /\ Head(s) = "-" /\ mag.kind # "NaN" THEN Negate(mag)
        ELSE mag

\* Number.isNaN
NumberIsNaN(v) == v.kind = "NaN"

\* `${number}`: Number::toString for the magnitudes the model uses.
NumberToString(v) ==
    LET a == IF v.n < 0 THEN 0 - v.n ELSE v.n
        sign == IF v.n < 0 THEN <<"-">> ELSE <<>>
    IN  IF v.kind = "NaN" THEN <<"N", "a", "N">>
        ELSE IF v.kind = "Infinity" THEN sign \o InfinityText
        ELSE IF v.s = 0 THEN sign \o NatToString(a)
        ELSE sign \o NatToString(a \div Pow10(v.s)) \o <<".">>
                  \o PadDigits(a % Pow10(v.s), v.s)

(***************************************************************************)
(* node:crypto and Buffer                                                  *)
(***************************************************************************)
\* Length in bytes of a SHA-256 digest.
SHA256_BYTES == 32

\* Request bodies: each is one opaque symbol of the raw body string.
BodySymbols ==
    <<"{guest_booked}", "{guest_cancelled}", "{}", "null", "{not json",
      "{readme}", "{answers}", "{null answer}">>

\* Every symbol a string of the model is made of, in a fixed order.
Alphabet ==
    LowerHex \o <<"A", "B", "C", "D", "E", "F">>
    \o <<" ", ",", "=", ".", "+", "-", "x", "X", "I", "n", "i", "t", "y",
         "v", "s", "k", "u", "h", "p", "z", "g", "N", ":", "/">>
    \o BodySymbols

SymbolCode(c) == CHOOSE i \in 1..Len(Alphabet) : Alphabet[i] = c

\* A polynomial fingerprint of a string, continued from h.
RECURSIVE Absorb(_, _)
Absorb(h, s) ==
    IF s = <<>> THEN h
    ELSE Absorb((h * 131 + SymbolCode(Head(s))) % 65521, Tail(s))

\* crypto.createHmac('sha256', secret).update(message).digest(): a keyed
\* digest of SHA256_BYTES bytes.  The first two bytes carry the fingerprint
\* of (secret, message), so distinct fingerprints give distinct digests.
HmacSha256(secret, message) ==
    LET h == Absorb(Absorb(Absorb(7, secret), <<"=">>), message)
    IN  [i \in 1..SHA256_BYTES |->
            IF i = 1 THEN h \div 256
            ELSE IF i = 2 THEN h % 256
            ELSE ((h + 1) * (2 * i + 1) + i) % 256]

\* digest('hex') / Buffer.toString('hex'): two lowercase hex digits a byte.
RECURSIVE HexEncode(_)
HexEncode(bytes) ==
    IF bytes = <<>> THEN <<>>
    ELSE <<LowerHex[(Head(bytes) \div 16) + 1], LowerHex[(Head(bytes) % 16) + 1]>>
         \o HexEncode(Tail(bytes))

\* Buffer.from(text, 'hex'): decodes pairs of hex digits and stops, without
\* throwing, at the first pair that is incomplete or holds a non-hex digit.
RECURSIVE BufferFromHex(_)
BufferFromHex(text) ==
    IF Len(text) < 2 \/ ~IsHexDigit(text[1]) \/ ~IsHexDigit(text[2]) THEN <<>>
    ELSE <<16 * HexVal(text[1]) + HexVal(text[2])>>
         \o BufferFromHex(SubSeq(text, 3, Len(text)))

\* crypto.timingSafeEqual on buffers of equal length.
TimingSafeEqual(a, b) == a = b

(***************************************************************************)
(* Authenticator: app/api/jicoo/route.ts                                   *)
(***************************************************************************)
SIGNATURE_TOLERANCE_SECONDS == 300

\* The value parseSignature's reduce leaves under `key`: the trimmed value of
\* the last part "key=value" whose key and value are both non-empty.
RECURSIVE PartsLookup(_, _)
PartsLookup(parts, key) ==
    IF parts = <<>> THEN NULL
    ELSE LET items == Split(parts[Len(parts)], "=")
             k == Trim(items[1])
             v == IF Len(items) >= 2 THEN Trim(items[2]) ELSE <<>>
         IN  IF k = key /\ k # <<>> /\ v # <<>> THEN v
             ELSE PartsLookup(SubSeq(parts, 1, Len(parts) - 1), key)

\* parseSignature without the Number.isNaN check.
parseSignature_NoNaNCheck(header) ==
    LET parts == Split(header, ",")
        t == PartsLookup(parts, <<"t">>)
        v1 == PartsLookup(parts, <<"v", "1">>)
    IN  IF t = NULL \/ v1 = NULL THEN NullObject
        ELSE [timestamp |-> StringToNumber(t), signature |-> v1]

parseSignature(header) ==
    LET parts == Split(header, ",")
        t == PartsLookup(parts, <<"t">>)
        v1 == PartsLookup(parts, <<"v", "1">>)
    IN  IF t = NULL \/ v1 = NULL THEN NullObject
        ELSE IF NumberIsNaN(StringToNumber(t)) THEN NullObject
        ELSE [timestamp |-> StringToNumber(t), signature |-> v1]

\* isFreshTimestamp with the boundary excluded (< for <=).
isFreshTimestamp_Strict(timestamp, dateNow) ==
    LET now == dateNow \div 1000
        d == now * Pow10(timestamp.s) - timestamp.n
        abs == IF d < 0 THEN 0 - d ELSE d
    IN  /\ timestamp.kind = "finite"
        /\ abs < SIGNATURE_TOLERANCE_SECONDS * Pow10(timestamp.s)

\* isFreshTimestamp without Math.abs: only the past is bounded.
isFreshTimestamp_PastOnly(timestamp, dateNow) ==
    LET now == dateNow \div 1000
        d == now * Pow10(timestamp.s) - timestamp.n
    IN  /\ timestamp.kind # "NaN"
        /\ (timestamp.kind = "Infinity" => timestamp.n > 0)
        /\ (timestamp.kind = "finite"
              => d <= SIGNATURE_TOLERANCE_SECONDS * Pow10(timestamp.s))

\* Math.abs(now - timestamp) <= SIGNATURE_TOLERANCE_SECONDS, with
\* now = Math.floor(Date.now() / 1000); dateNow is Date.now() in ms.
isFreshTimestamp(timestamp, dateNow) ==
    LET now == dateNow \div 1000
        d == now * Pow10(timestamp.s) - timestamp.n
        abs == IF d < 0 THEN 0 - d ELSE d
    IN  /\ timestamp.kind = "finite"
        /\ abs <= SIGNATURE_TOLERANCE_SECONDS * Pow10(timestamp.s)

\* verifySignature signing "<timestamp><rawBody>", without the separator.
verifySignature_NoSeparator(parsed, rawBody, secret) ==
    LET signedPayload == NumberToString(parsed.timestamp) \o rawBody
        expectedBuffer == HmacSha256(secret, signedPayload)
        providedBuffer == BufferFromHex(parsed.signature)
    IN  IF Len(expectedBuffer) # Len(providedBuffer) THEN FALSE
        ELSE TimingSafeEqual(BufferFromHex(HexEncode(expectedBuffer)), providedBuffer)

\* verifySignature with the comparison of the contents left out.
verifySignature_LengthOnly(parsed, rawBody, secret) ==
    Len(BufferFromHex(parsed.signature)) = SHA256_BYTES

verifySignature(parsed, rawBody, secret) ==
    LET signedPayload == NumberToString(parsed.timestamp) \o <<".">> \o rawBody
        expectedSignature == HexEncode(HmacSha256(secret, signedPayload))
        expectedBuffer == BufferFromHex(expectedSignature)
        providedBuffer == BufferFromHex(parsed.signature)
    IN  IF Len(expectedBuffer) # Len(providedBuffer) THEN FALSE
        ELSE TimingSafeEqual(expectedBuffer, providedBuffer)

(***************************************************************************)
(* JSON values                                                             *)
(***************************************************************************)
JUndefined == [type |-> "undefined"]
JNull == [type |-> "null"]
JString(s) == [type |-> "string", str |-> s]
JNumber(n) == [type |-> "number", num |-> n]
JArray(items) == [type |-> "array", items |-> items]
\* An object; `fields` is a record of JSON values.
JObject(fields) == [type |-> "object", fields |-> fields]

\* value == null || value === undefined
IsNullish(value) == value.type \in {"null", "undefined"}

\* value.key for a value that is neither null nor undefined.
Get(value, key) ==
    IF value.type = "object" /\ key \in DOMAIN value.fields
    THEN value.fields[key] ELSE JUndefined

\* value?.key
OptGet(value, key) == IF IsNullish(value) THEN JUndefined ELSE Get(value, key)

\* a ?? b
Coalesce(a, b) == IF IsNullish(a) THEN b ELSE a

\* !!value
Truthy(value) ==
    CASE value.type \in {"null", "undefined"} -> FALSE
      [] value.type = "string" -> value.str # <<>>
      [] value.type = "number" -> value.num # 0
      [] value.type \in {"array", "object"} -> TRUE

(***************************************************************************)
(* Notification builder: app/api/jicoo/route.ts                            *)
(***************************************************************************)
\* The placeholder string (U+4E0D U+660E, "unknown") as one symbol.
FALLBACK_TEXT == <<"fumei">>

\* The result of an expression that throws a TypeError.
THROWN == <<"<TypeError>">>

\* The words of the model's vocabulary in which /(<denwa>|phone|tel)/i finds a
\* match ("denwa" stands for the Japanese word, "hotel" contains "tel").
PHONE_QUESTION_PATTERN == {"phone", "Phone", "TEL", "denwa", "hotel"}

\* The words in which GOOGLE_MEET_QUESTION_PATTERN finds a match.
GOOGLE_MEET_QUESTION_PATTERN == {"Google Meet", "google meet", "Meet URL", "Google Hangout"}

\* pattern.test(text): some word of the text matches.
RegExpTest(pattern, text) == \E i \in DOMAIN text : text[i] \in pattern

\* normalizeText: the trimmed string; undefined (NULL) when the value is not
\* a string or nothing is left of it.
normalizeText(value) ==
    IF value.type # "string" THEN NULL
    ELSE IF Len(Trim(value.str)) > 0 THEN Trim(value.str) ELSE NULL

\* a ?? b for strings that may be undefined
OrElse(a, b) == IF a = NULL THEN b ELSE a

\* Array.prototype.join(', ')
RECURSIVE Join(_)
Join(items) ==
    IF items = <<>> THEN <<>>
    ELSE IF Len(items) = 1 THEN items[1]
    ELSE items[1] \o <<",", " ">> \o Join(Tail(items))

normalizeAnswerValue(value) ==
    IF value.type = "array"
    THEN LET trimmed == [i \in DOMAIN value.items |->
                            IF value.items[i].type = "string"
                            THEN Trim(value.items[i].str) ELSE <<>>]
             normalized == SelectSeq(trimmed, LAMBDA item : Len(item) > 0)
         IN  IF Len(normalized) = 0 THEN NULL ELSE Join(normalized)
    ELSE normalizeText(value)

\* The first answer whose question matches the pattern and whose content (or
\* value) normalizes to something; THROWN when `answer.question` is read on
\* an entry that is null.
RECURSIVE findAnswerValue(_, _)
findAnswerValue(answers, pattern) ==
    IF answers = <<>> THEN NULL
    ELSE LET answer == Head(answers)
             question == Get(answer, "question")
             skip == CASE ~Truthy(question) -> TRUE
                       [] question.type = "string" -> ~RegExpTest(pattern, question.str)
                       [] question.type = "number" -> TRUE
             normalized == normalizeAnswerValue(
                               Coalesce(Get(answer, "content"), Get(answer, "value")))
         IN  IF IsNullish(answer) THEN THROWN
             ELSE IF skip THEN findAnswerValue(Tail(answers), pattern)
             ELSE IF normalized # NULL THEN normalized
             ELSE findAnswerValue(Tail(answers), pattern)

\* collectAnswers pushing the top-level answers before the booking's.
collectAnswers_RootFirst(payload) ==
    LET bookingAnswers == OptGet(Get(payload, "object"), "answers")
        rootAnswers == Get(payload, "answers")
    IN  (IF rootAnswers.type = "array" THEN rootAnswers.items ELSE <<>>)
        \o (IF bookingAnswers.type = "array" THEN bookingAnswers.items ELSE <<>>)

collectAnswers(payload) ==
    LET bookingAnswers == OptGet(Get(payload, "object"), "answers")
        rootAnswers == Get(payload, "answers")
    IN  (IF bookingAnswers.type = "array" THEN bookingAnswers.items ELSE <<>>)
        \o (IF rootAnswers.type = "array" THEN rootAnswers.items ELSE <<>>)

\* getContactInfo without the placeholder for a missing email.
getContactInfo_EmailNoFallback(payload, answers) ==
    LET contact == Coalesce(OptGet(Get(payload, "object"), "contact"),
                            Get(payload, "contact"))
        contactPhone == normalizeText(OptGet(contact, "phone"))
        phone == IF contactPhone # NULL THEN contactPhone
                 ELSE OrElse(findAnswerValue(answers, PHONE_QUESTION_PATTERN),
                             FALLBACK_TEXT)
    IN  [name |-> OrElse(normalizeText(OptGet(contact, "name")), FALLBACK_TEXT),
         email |-> OrElse(normalizeText(OptGet(contact, "email")), <<"undefined">>),
         phone |-> phone]

getContactInfo(payload, answers) ==
    LET contact == Coalesce(OptGet(Get(payload, "object"), "contact"),
                            Get(payload, "contact"))
        contactPhone == normalizeText(OptGet(contact, "phone"))
        phone == IF contactPhone # NULL THEN contactPhone
                 ELSE OrElse(findAnswerValue(answers, PHONE_QUESTION_PATTERN),
                             FALLBACK_TEXT)
    IN  [name |-> OrElse(normalizeText(OptGet(contact, "name")), FALLBACK_TEXT),
         email |-> OrElse(normalizeText(OptGet(contact, "email")), FALLBACK_TEXT),
         phone |-> phone]

\* The scheme a URL string starts with, as one symbol.
UrlSchemes == {"https:", "http:", "HTTPS:", "ftp:", "mailto:"}

\* new URL(value).protocol, or THROWN when the string has no scheme or
\* nothing after it.
URLProtocol(value) ==
    IF Len(value) < 2 \/ Head(value) \notin UrlSchemes THEN THROWN
    ELSE IF Head(value) = "HTTPS:" THEN <<"https:">>
    ELSE <<Head(value)>>

looksLikeUrl(value) ==
    IF URLProtocol(value) = THROWN THEN FALSE
    ELSE URLProtocol(value) = <<"https:">> \/ URLProtocol(value) = <<"http:">>

\* The loop over the candidates without looksLikeUrl: the first candidate
\* that normalizes to anything.
RECURSIVE FirstUrl_NoUrlCheck(_)
FirstUrl_NoUrlCheck(candidates) ==
    IF candidates = <<>> THEN NULL
    ELSE LET normalized == normalizeText(Head(candidates))
         IN  IF normalized # NULL THEN normalized
             ELSE FirstUrl_NoUrlCheck(Tail(candidates))

\* The first candidate that normalizes to an http(s) URL, NULL when none does.
RECURSIVE FirstUrl(_)
FirstUrl(candidates) ==
    IF candidates = <<>> THEN NULL
    ELSE LET normalized == normalizeText(Head(candidates))
         IN  IF normalized # NULL /\ looksLikeUrl(normalized) THEN normalized
             ELSE FirstUrl(Tail(candidates))

\* extractGoogleMeetUrl taking the answer found without looksLikeUrl.
extractGoogleMeetUrl_AnswerUnchecked(payload, answers) ==
    LET object == Get(payload, "object")
        meeting == OptGet(object, "meeting")
        location == OptGet(object, "location")
        candidates == <<OptGet(object, "googleMeetUrl"),
                        OptGet(object, "hangoutLink"),
                        OptGet(object, "hangoutUrl"),
                        OptGet(object, "conferenceUrl"),
                        OptGet(object, "meetingUrl"),
                        OptGet(meeting, "url"),
                        OptGet(meeting, "link"),
                        OptGet(location, "url"),
                        OptGet(location, "link"),
                        OptGet(location, "value")>>
        answerUrl == findAnswerValue(answers, GOOGLE_MEET_QUESTION_PATTERN)
    IN  IF FirstUrl(candidates) # NULL THEN FirstUrl(candidates)
        ELSE IF answerUrl = THROWN THEN THROWN
        ELSE IF answerUrl # NULL THEN answerUrl
        ELSE FALLBACK_TEXT

extractGoogleMeetUrl(payload, answers) ==
    LET object == Get(payload, "object")
        meeting == OptGet(object, "meeting")
        location == OptGet(object, "location")
        candidates == <<OptGet(object, "googleMeetUrl"),
                        OptGet(object, "hangoutLink"),
                        OptGet(object, "hangoutUrl"),
                        OptGet(object, "conferenceUrl"),
                        OptGet(object, "meetingUrl"),
                        OptGet(meeting, "url"),
                        OptGet(meeting, "link"),
                        OptGet(location, "url"),
                        OptGet(location, "link"),
                        OptGet(location, "value")>>
        answerUrl == findAnswerValue(answers, GOOGLE_MEET_QUESTION_PATTERN)
    IN  IF FirstUrl(candidates) # NULL THEN FirstUrl(candidates)
        ELSE IF answerUrl = THROWN THEN THROWN
        ELSE IF answerUrl # NULL /\ looksLikeUrl(answerUrl) THEN answerUrl
        ELSE FALLBACK_TEXT

IsLeapYear(y) == (y % 4 = 0 /\ y % 100 # 0) \/ y % 400 = 0

DaysInMonth(y, m) ==
    IF m = 2 THEN (IF IsLeapYear(y) THEN 29 ELSE 28)
    ELSE IF m \in {4, 6, 9, 11} THEN 30 ELSE 31

InvalidDate == [valid |-> FALSE, y |-> 0, mo |-> 0, d |-> 0, h |-> 0, mi |-> 0]

\* new Date(text) for a text "YYYY-MM-DDTHH:mm:ssZ" (UTC); any other text of
\* the model is an Invalid Date.
DateParse(text) ==
    LET num(a, b) == DecValue(SubSeq(text, a, b))
        shaped == /\ Len(text) = 20
                  /\ text[5] = "-" /\ text[8] = "-" /\ text[11] = "T"
                  /\ text[14] = ":" /\ text[17] = ":" /\ text[20] = "Z"
                  /\ \A i \in (1..19) \ {5, 8, 11, 14, 17} : IsDigit(text[i])
    IN  IF ~shaped THEN InvalidDate
        ELSE IF \/ num(6, 7) \notin 1..12
                \/ num(9, 10) \notin 1..DaysInMonth(num(1, 4), num(6, 7))
                \/ num(12, 13) > 23 \/ num(15, 16) > 59 \/ num(18, 19) > 59
        THEN InvalidDate
        ELSE [valid |-> TRUE, y |-> num(1, 4), mo |-> num(6, 7), d |-> num(9, 10),
              h |-> num(12, 13), mi |-> num(15, 16)]

\* The date in the Asia/Tokyo time zone: nine hours later.
InTokyo(date) ==
    LET h == date.h + 9
        nextDay == h >= 24
        lastDay == date.d = DaysInMonth(date.y, date.mo)
    IN  IF ~nextDay THEN [date EXCEPT !.h = h]
        ELSE IF ~lastDay THEN [date EXCEPT !.h = h - 24, !.d = date.d + 1]
        ELSE IF date.mo < 12 THEN [date EXCEPT !.h = h - 24, !.d = 1, !.mo = date.mo + 1]
        ELSE [date EXCEPT !.h = h - 24, !.d = 1, !.mo = 1, !.y = date.y + 1]

\* Intl.DateTimeFormat('ja-JP', { timeZone: 'Asia/Tokyo', year: 'numeric',
\* month/day/hour/minute: '2-digit' }).format(date): "YYYY/MM/DD HH:mm"
FormatJaJP(date) ==
    LET t == InTokyo(date)
    IN  PadDigits(t.y, 4) \o <<"/">> \o PadDigits(t.mo, 2) \o <<"/">> \o PadDigits(t.d, 2)
        \o <<" ">> \o PadDigits(t.h, 2) \o <<":">> \o PadDigits(t.mi, 2)

\* String.prototype.replace(/\//g, '-')
ReplaceSlashes(text) == [i \in DOMAIN text |-> IF text[i] = "/" THEN "-" ELSE text[i]]

\* new Date(ms) for a number of milliseconds within the first day of 1970.
DateFromMillis(ms) ==
    [valid |-> TRUE, y |-> 1970, mo |-> 1, d |-> 1,
     h |-> (ms \div 3600000) % 24, mi |-> (ms \div 60000) % 60]

\* toJstString for a value that is absent, null, a string or a number.
\* Formatting an Invalid Date throws a RangeError, and the catch returns the
\* input.
toJstString(dateTime) ==
    CASE ~Truthy(dateTime) -> FALLBACK_TEXT
      [] dateTime.type = "string" ->
            IF DateParse(dateTime.str).valid
            THEN ReplaceSlashes(FormatJaJP(DateParse(dateTime.str)))
            ELSE dateTime.str
      [] dateTime.type = "number" ->
            ReplaceSlashes(FormatJaJP(DateFromMillis(dateTime.num)))

\* The labels of the six fields, in the order of the text lines and of the
\* block fields (each stands for the Japanese label of the source).
FieldLabels == <<"Name", "Mail", "Phone", "Start", "End", "Google Meet">>

Heading == <<"New booking received">>

\* buildSlackPayload with the start and end times exchanged in the section.
buildSlackPayload_BlocksSwapped(payload) ==
    LET answers == collectAnswers(payload)
        info == getContactInfo(payload, answers)
        startText == toJstString(OptGet(Get(payload, "object"), "startedAt"))
        endText == toJstString(OptGet(Get(payload, "object"), "endedAt"))
        googleMeetUrl == extractGoogleMeetUrl(payload, answers)
        values == <<info.name, info.email, info.phone, startText, endText, googleMeetUrl>>
        inBlocks == <<info.name, info.email, info.phone, endText, startText, googleMeetUrl>>
    IN  IF info.phone = THROWN \/ googleMeetUrl = THROWN
        THEN [threw |-> TRUE, text |-> <<>>, blocks |-> <<>>]
        ELSE [threw |-> FALSE,
              text |-> <<Heading>> \o
                       [i \in 1..6 |-> <<"- ", FieldLabels[i], ": ">> \o values[i]],
              blocks |-> <<[type |-> "header", text |-> Heading],
                           [type |-> "section",
                            fields |-> [i \in 1..6 |->
                                [type |-> "mrkdwn",
                                 text |-> <<"*", FieldLabels[i], "*", "LF">> \o inBlocks[i]]]]>>]

\* buildSlackPayload: the text as its lines, the blocks as the header and the
\* section of six fields; threw when reading an answer throws.
buildSlackPayload(payload) ==
    LET answers == collectAnswers(payload)
        info == getContactInfo(payload, answers)
        startText == toJstString(OptGet(Get(payload, "object"), "startedAt"))
        endText == toJstString(OptGet(Get(payload, "object"), "endedAt"))
        googleMeetUrl == extractGoogleMeetUrl(payload, answers)
        values == <<info.name, info.email, info.phone, startText, endText, googleMeetUrl>>
    IN  IF info.phone = THROWN \/ googleMeetUrl = THROWN
        THEN [threw |-> TRUE, text |-> <<>>, blocks |-> <<>>]
        ELSE [threw |-> FALSE,
              text |-> <<Heading>> \o
                       [i \in 1..6 |-> <<"- ", FieldLabels[i], ": ">> \o values[i]],
              blocks |-> <<[type |-> "header", text |-> Heading],
                           [type |-> "section",
                            fields |-> [i \in 1..6 |->
                                [type |-> "mrkdwn",
                                 text |-> <<"*", FieldLabels[i], "*", "LF">> \o values[i]]]]>>]

\* JSON.parse(rawBody): the reading of each body symbol; threw is a
\* SyntaxError.
JSONParse(rawBody) ==
    LET parsed(value) == [threw |-> FALSE, value |-> value]
        taro == [name |-> JString(<<"Yamada", " ", "Taro">>),
                 email |-> JString(<<"taro@example.com">>)]
    IN  CASE rawBody = <<"{guest_booked}">> ->
                parsed(JObject([event |-> JString(<<"guest_booked">>)]))
          [] rawBody = <<"{guest_cancelled}">> ->
                parsed(JObject([event |-> JString(<<"guest_cancelled">>)]))
          [] rawBody = <<"{}">> -> parsed(JObject(<<>>))
          [] rawBody = <<"null">> -> parsed(JNull)
          [] rawBody = <<"{readme}">> ->
                \* the payload of the README's curl example
                parsed(JObject([
                    event |-> JString(<<"guest_booked">>),
                    object |-> JObject([
                        id |-> JString(<<"booking_xxx">>),
                        startedAt |-> JString(<<"2", "0", "2", "5", "-", "1", "1", "-", "1", "6", "T", "0", "1", ":", "0", "0", ":", "0", "0", "Z">>),
                        endedAt |-> JString(<<"2", "0", "2", "5", "-", "1", "1", "-", "1", "6", "T", "0", "2", ":", "0", "0", ":", "0", "0", "Z">>),
                        eventTypeName |-> JString(<<"consultation">>)]),
                    contact |-> JObject(taro)]))
          [] rawBody = <<"{answers}">> ->
                parsed(JObject([
                    event |-> JString(<<"guest_booked">>),
                    object |-> JObject([
                        startedAt |-> JString(<<"2", "0", "2", "4", "-", "0", "2", "-", "2", "9", "T", "1", "5", ":", "3", "0", ":", "0", "0", "Z">>),
                        endedAt |-> JString(<<"tomorrow">>),
                        contact |-> JObject([name |-> JString(<<" ", "Hanako", " ">>),
                                             email |-> JString(<<" ">>)]),
                        location |-> JObject([value |-> JString(<<"Room", " ", "3">>)]),
                        answers |-> JArray(<<
                            JObject([question |-> JString(<<"Your", " ", "phone">>),
                                     content |-> JString(<<" ", "090-0000", " ">>)]),
                            JObject([question |-> JString(<<"Google Meet", " ", "URL">>),
                                     value |-> JArray(<<JString(<<"https:", "//", "meet.example/abc">>)>>)])>>)]),
                    contact |-> JObject(taro)]))
          [] rawBody = <<"{null answer}">> ->
                parsed(JObject([
                    event |-> JString(<<"guest_booked">>),
                    answers |-> JArray(<<JNull>>)]))
          [] OTHER -> [threw |-> TRUE, value |-> JUndefined]

(***************************************************************************)
(* Event payloads given to the notification builder                        *)
(***************************************************************************)
\* An object of the fields whose value is not undefined.
Field(key, value) == IF value = JUndefined THEN <<>> ELSE key :> value

MeetUrlA == <<"https:", "//", "meet.example/abc">>
MeetUrlB == <<"http:", "//", "meet.example/xyz">>
MeetUrlPadded == <<" ", "https:", "//", "meet.example/pad", " ">>
FtpUrl == <<"ftp:", "//", "files.example/room">>
RoomText == <<"Room", " ", "3">>
IsoLeapDay == <<"2", "0", "2", "4", "-", "0", "2", "-", "2", "9", "T", "1", "5", ":", "3", "0", ":", "0", "0", "Z">>
IsoNewYearsEve == <<"2", "0", "2", "5", "-", "1", "2", "-", "3", "1", "T", "2", "3", ":", "5", "9", ":", "0", "0", "Z">>

\* Values of payload.object.contact and of payload.contact.
ContactValues ==
    {JUndefined, JNull,
     JObject([name |-> JString(<<" ", "Hanako", " ">>), email |-> JString(<<" ">>)]),
     JObject([name |-> JString(<<"Jiro">>), email |-> JString(<<"jiro@example.com">>),
              phone |-> JString(<<" ", "03-1111", " ">>)]),
     JObject([name |-> JNumber(5), phone |-> JString(<<>>)])}

RootContactValues ==
    {JUndefined,
     JObject([name |-> JString(<<"Yamada", " ", "Taro">>),
              email |-> JString(<<"taro@example.com">>),
              phone |-> JString(<<"080-2222">>)])}

\* Values of payload.object.answers and of payload.answers.
AnswersValues ==
    {JUndefined, JNull,
     JArray(<<JObject([question |-> JString(<<"Your", " ", "phone">>),
                       content |-> JString(<<" ", "090-0000", " ">>)])>>),
     JArray(<<JObject([question |-> JString(<<"TEL">>),
                       content |-> JString(<<>>), value |-> JString(<<"0120">>)]),
              JObject([question |-> JString(<<"hotel", " ", "name">>),
                       content |-> JNull,
                       value |-> JArray(<<JString(<<" ", "Grand", " ">>), JNumber(7),
                                          JString(<<" ">>), JString(<<"Inn">>)>>)])>>),
     JArray(<<JObject([question |-> JString(<<"Google Meet", " ", "URL">>),
                       value |-> JArray(<<JString(MeetUrlA)>>)]),
              JObject([question |-> JString(<<"Name">>), content |-> JString(<<"x">>)])>>),
     JArray(<<JObject([question |-> JNumber(5), content |-> JString(<<"1">>)]),
              JString(<<"phone">>),
              JObject([content |-> JString(<<"no", " ", "question">>)]),
              JObject([question |-> JString(<<"Meet URL">>), content |-> JString(RoomText)])>>),
     JArray(<<JObject([question |-> JString(<<"Meet URL">>), content |-> JString(RoomText)]),
              JObject([question |-> JString(<<"Google Meet">>),
                       content |-> JString(MeetUrlB)])>>),
     JArray(<<JNull>>)}

RootAnswersValues ==
    {JUndefined,
     JArray(<<JObject([question |-> JString(<<"denwa">>),
                       content |-> JString(<<"070-3333">>)])>>)}

\* Values of payload.object.startedAt and of payload.object.endedAt.
DateTimeValues ==
    {JUndefined, JNull, JString(<<>>), JString(IsoLeapDay), JString(IsoNewYearsEve),
     JString(<<"tomorrow">>), JNumber(5)}

\* Values of a meeting-link field.
LinkValues ==
    {JString(MeetUrlA), JString(MeetUrlB), JString(MeetUrlPadded), JString(FtpUrl),
     JString(RoomText), JString(<<" ">>), JNull}

\* The meeting-link fields of the booking object, `links` giving the values
\* of some of the ten candidates by their place in the list of
\* extractGoogleMeetUrl.
LinkFields(links) ==
    LET at(i) == IF i \in DOMAIN links THEN links[i] ELSE JUndefined
        nested(i, j, k) ==
            IF {i, j, k} \cap DOMAIN links = {} THEN JUndefined
            ELSE JObject(Field("url", at(i)) @@ Field("link", at(j))
                         @@ (IF k = 0 THEN <<>> ELSE Field("value", at(k))))
    IN  Field("googleMeetUrl", at(1)) @@ Field("hangoutLink", at(2))
        @@ Field("hangoutUrl", at(3)) @@ Field("conferenceUrl", at(4))
        @@ Field("meetingUrl", at(5))
        @@ Field("meeting", nested(6, 7, 0))
        @@ Field("location", nested(8, 9, 10))

\* Number of candidate fields of a booking object.
LINK_CANDIDATES == 10

\* Assignments of values to at most two of the candidates.
LinkChoices ==
    {<<>>}
    \cup {i :> v : i \in 1..LINK_CANDIDATES, v \in LinkValues}
    \cup {(i :> v) @@ (j :> w) :
            i \in 1..LINK_CANDIDATES, j \in 1..LINK_CANDIDATES,
            v \in {JString(MeetUrlA), JString(FtpUrl), JString(RoomText)},
            w \in {JString(MeetUrlB), JString(MeetUrlPadded)}}

\* A guest_booked payload.
Booking(object, contact, answers) ==
    JObject(("event" :> JString(<<"guest_booked">>)) @@ Field("object", object)
            @@ Field("contact", contact) @@ Field("answers", answers))

\* The payloads the builder is given: contacts and answers in every
\* combination, every pair of dates, every choice of links (with and without
\* an answer carrying a link), bookings with every kind of field at once, and
\* bookings whose object is absent, null or not an object.
EventPayloads ==
    {Booking(JObject(Field("contact", c) @@ Field("answers", a)
                     @@ Field("startedAt", JString(IsoLeapDay))), rc, ra) :
        c \in ContactValues, a \in AnswersValues,
        rc \in RootContactValues, ra \in RootAnswersValues}
    \cup {Booking(JObject(Field("startedAt", s) @@ Field("endedAt", e)),
                  JUndefined, JUndefined) :
            s \in DateTimeValues, e \in DateTimeValues}
    \cup {Booking(JObject(LinkFields(links) @@ Field("answers", a)),
                  JUndefined, JUndefined) :
            links \in LinkChoices,
            a \in {JUndefined,
                   JArray(<<JObject([question |-> JString(<<"Google Meet", " ", "URL">>),
                                     value |-> JArray(<<JString(MeetUrlA)>>)])>>)}}
    \cup {Booking(JObject(LinkFields(3 :> JString(MeetUrlPadded))
                          @@ Field("contact", c) @@ Field("answers", a)
                          @@ Field("startedAt", JString(IsoLeapDay))
                          @@ Field("endedAt", JString(IsoNewYearsEve))),
                  rc, JUndefined) :
            c \in ContactValues, a \in AnswersValues, rc \in RootContactValues}
    \cup {Booking(o, rc, ra) :
            o \in {JUndefined, JNull, JString(<<"booking">>)},
            rc \in RootContactValues, ra \in RootAnswersValues \cup {JArray(<<JNull>>)}}

(***************************************************************************)
(* Runtime configuration: lib/runtime-config.ts                            *)
(***************************************************************************)
DEFAULT_CONFIG == [slackWebhookUrl |-> NULL, jicooSecret |-> NULL]

SecretA == <<"s", "k", "1">>
SecretB == <<"s", "k", "2">>
SinkUrl == <<"https:", "//", "hooks.slack.example">>

\* What .runtime/settings.json can hold when the process starts: nothing
\* (ENOENT), text that is not JSON, or a JSON value.
StorageFiles ==
    {[error |-> "ENOENT", content |-> JUndefined],
     [error |-> "SyntaxError", content |-> JUndefined],
     [error |-> "", content |-> JNull]}
    \cup {[error |-> "",
           content |-> JObject([slackWebhookUrl |-> u, jicooSecret |-> k])] :
            u \in {JString(SinkUrl), JNull},
            k \in {JString(SecretA), JString(<<>>), JNumber(5)}}

\* The body of getRuntimeConfig's load: the configuration read from the
\* file, the defaults when reading or parsing throws.
LoadConfig(file) ==
    LET parsed == file.content
        url == Get(parsed, "slackWebhookUrl")
        secret == Get(parsed, "jicooSecret")
    IN  IF file.error # "" \/ IsNullish(parsed) THEN DEFAULT_CONFIG
        ELSE [slackWebhookUrl |-> IF url.type = "string" THEN url.str ELSE NULL,
              jicooSecret |-> IF secret.type = "string" THEN secret.str ELSE NULL]

\* !value for a string or null
Falsy(value) == value = NULL \/ value = <<>>

(***************************************************************************)
(* The senders of webhook requests                                         *)
(***************************************************************************)
\* Secrets a sender may sign with: the configured one and another one.
SenderSecrets == {SecretA, SecretB}

\* Header timestamps written as plain decimal integers of seconds.
DecimalTimestamps ==
    {<<"6", "9", "9">>,
     <<"7", "0", "0">>,
     <<"7", "0", "1">>,
     <<"1", "0", "0", "0">>,
     <<"1", "3", "0", "0">>,
     <<"1", "3", "0", "1">>,
     <<"1", "3", "0", "2">>}

\* Header timestamps written in some other way.
OtherTimestamps ==
    {<<"1", "e", "3">>,
     <<"0", "x", "3", "e", "8">>,
     <<"1", "0", "0", "0", ".", "5">>,
     <<"I", "n", "f", "i", "n", "i", "t", "y">>,
     <<"a", "b", "c">>,
     <<"0", "1", "0", "0", "0">>}

\* Date.now() in milliseconds at the time of the freshness check.
DateNowChoices == {1000000, 1000999, 1001000}

\* The lowercase-hex HMAC-SHA256 of "<signedT>.<body>" under `secret`.
SenderSignature(secret, signedT, body) ==
    HexEncode(HmacSha256(secret, signedT \o <<".">> \o body))

\* The texts a sender may sign for the timestamp it sends: the text as sent,
\* or the decimal rendering of its numeric value.
SignedTexts(t) ==
    {t} \cup (IF NumberIsNaN(StringToNumber(t)) THEN {}
              ELSE {NumberToString(StringToNumber(t))})

Tamperings ==
    {"exact", "flipLast", "flipFirst", "upper", "short", "long",
     "trailingJunk", "oddDigit", "leadingJunk", "junkInside"}

OtherHexDigit(c) == IF c = "0" THEN "1" ELSE "0"

UpperCase(c) == IF c \in Range(LowerHex) THEN UpperHex[HexVal(c) + 1] ELSE c

\* A v1 value derived from a signature `sig`.
Tamper(sig, how) ==
    CASE how = "exact" -> sig
      [] how = "flipLast" -> [sig EXCEPT ![Len(sig)] = OtherHexDigit(@)]
      [] how = "flipFirst" -> [sig EXCEPT ![1] = OtherHexDigit(@)]
      [] how = "upper" -> [i \in DOMAIN sig |-> UpperCase(sig[i])]
      [] how = "short" -> SubSeq(sig, 1, Len(sig) - 2)
      [] how = "long" -> sig \o <<"0", "0">>
      [] how = "trailingJunk" -> sig \o <<"z", "z">>
      [] how = "oddDigit" -> sig \o <<"0">>
      [] how = "leadingJunk" -> <<"z", "z">> \o sig
      [] how = "junkInside" -> [sig EXCEPT ![3] = "z"]

HeaderShapes ==
    {"standard", "tight", "spaced", "reversed", "noT", "noV1", "emptyT", "emptyV1"}

\* The Jicoo-Webhook-Signature header value built from a timestamp text and
\* a v1 text.
Header(t, v1, shape) ==
    CASE shape = "standard" -> <<"t", "=">> \o t \o <<",", " ", "v", "1", "=">> \o v1
      [] shape = "tight" -> <<"t", "=">> \o t \o <<",", "v", "1", "=">> \o v1
      [] shape = "spaced" -> <<" ", "t", " ", "=", " ">> \o t
                             \o <<" ", ",", " ", "v", "1", " ", "=", " ">> \o v1 \o <<" ">>
      [] shape = "reversed" -> <<"v", "1", "=">> \o v1 \o <<",", "t", "=">> \o t
      [] shape = "noT" -> <<"v", "1", "=">> \o v1
      [] shape = "noV1" -> <<"t", "=">> \o t
      [] shape = "emptyT" -> <<"t", "=", ",", "v", "1", "=">> \o v1
      [] shape = "emptyV1" -> <<"t", "=">> \o t \o <<",", "v", "1", "=">>

Bodies == {<<BodySymbols[i]>> : i \in DOMAIN BodySymbols}

\* The requests a sender may make: a raw body and a signature header
\* (NULL when the request carries none).
Webhooks ==
    LET signed(body, t, signedT, k, how, shape) ==
            [body |-> body,
             header |-> Header(t, Tamper(SenderSignature(k, signedT, body), how), shape)]
    IN  {[body |-> b, header |-> h] : b \in Bodies, h \in {NULL, <<>>}}
        \cup {signed(b, <<"1", "0", "0", "0">>, <<"1", "0", "0", "0">>, k, how, "standard") :
                b \in Bodies, k \in SenderSecrets, how \in Tamperings}
        \cup UNION {{signed(<<"{guest_booked}">>, t, st, k, how, "standard") :
                        st \in SignedTexts(t), k \in SenderSecrets,
                        how \in {"exact", "flipLast"}} :
                    t \in DecimalTimestamps \cup OtherTimestamps}
        \cup {signed(<<"{guest_booked}">>, t, t, SecretA, "exact", shape) :
                t \in {<<"1", "0", "0", "0">>, <<"a", "b", "c">>}, shape \in HeaderShapes}

(***************************************************************************)
(* State                                                                   *)
(***************************************************************************)
\* Number of webhook requests handled in one behaviour.
MaxRequests == 2

VARIABLES
    storageFile,      \* content of .runtime/settings.json
    cachedConfig,     \* runtime-config.ts: cachedConfig
    pc,               \* where the POST handler of the request in flight is
    rawBody,          \* POST: rawBody
    signatureHeader,  \* POST: signatureHeader (NULL when the header is absent)
    webhookSecret,    \* POST: webhookSecret
    slackWebhookUrl,  \* POST: slackWebhookUrl
    dateNow,          \* Date.now() read by isFreshTimestamp (0: not read)
    sinkPosts,        \* the POSTs the request in flight made to the sink
    sinkOutcome,      \* what the sink did with the POST ("none": nothing yet)
    response,         \* the response of the request in flight
    handled,          \* requests answered so far
    builderInput,     \* buildSlackPayload: payload
    builderOutput,    \* buildSlackPayload: the SlackPayload returned
    setCall,          \* the call of setRuntimeConfig in flight (NullObject: none)
    configVersions,   \* the configuration objects cachedConfig has held
    updates,          \* calls of setRuntimeConfig made so far
    settingsBody,     \* POST /api/settings: the body of the last request
    settingsResponse, \* POST /api/settings: the response to it
    loadPromise,      \* runtime-config.ts: loadPromise ("null", "pending", "settled")
    fileReads,        \* times fs.readFile(STORAGE_FILE) was called
    calls             \* the calls of getRuntimeConfig / setRuntimeConfig made

vars == <<storageFile, cachedConfig, pc, rawBody, signatureHeader, webhookSecret,
          slackWebhookUrl, dateNow, sinkPosts, sinkOutcome, response, handled,
          builderInput, builderOutput, setCall, configVersions, updates,
          settingsBody, settingsResponse, loadPromise, fileReads, calls>>

builderVars == <<builderInput, builderOutput>>

settingsVars == <<setCall, configVersions, updates>>

settingsRouteVars == <<settingsBody, settingsResponse>>

loaderVars == <<loadPromise, fileReads, calls>>

requestVars == <<rawBody, signatureHeader, webhookSecret, slackWebhookUrl,
                 dateNow, sinkPosts, sinkOutcome, response>>

\* NextResponse.json({ error }, { status })
ErrorResponse(status, error) ==
    [status |-> status, error |-> error, ok |-> FALSE,
     ignored |-> FALSE, ignoredEvent |-> JUndefined]

\* NextResponse.json({ ok: true })
OkResponse == [status |-> 200, error |-> "", ok |-> TRUE,
               ignored |-> FALSE, ignoredEvent |-> JUndefined]

\* NextResponse.json({ ok: true, ignoredEvent: payload.event })
IgnoredResponse(event) == [OkResponse EXCEPT !.ignored = TRUE, !.ignoredEvent = event]

\* The response of the framework when the handler throws (payload.event on
\* a null payload, answer.question on a null answer).
UnhandledError == ErrorResponse(500, "Internal Server Error")

Init ==
    /\ storageFile \in StorageFiles
    /\ cachedConfig = NullObject
    /\ pc = "idle"
    /\ rawBody = <<>>
    /\ signatureHeader = NULL
    /\ webhookSecret = NULL
    /\ slackWebhookUrl = NULL
    /\ dateNow = 0
    /\ sinkPosts = <<>>
    /\ sinkOutcome = "none"
    /\ response = NullObject
    /\ handled = 0
    /\ builderInput = JUndefined
    /\ builderOutput = NullObject
    /\ setCall = NullObject
    /\ configVersions = {}
    /\ updates = 0
    /\ settingsBody = JUndefined
    /\ settingsResponse = NullObject
    /\ loadPromise = "null"
    /\ fileReads = 0
    /\ calls = <<>>

(***************************************************************************)
(* POST /api/jicoo                                                         *)
(***************************************************************************)
\* The handler returns `r`.
Return(r, clock) ==
    /\ response' = r
    /\ dateNow' = clock
    /\ pc' = "done"
    /\ sinkPosts' = sinkPosts

\* The handler without its check for a missing header: every request goes on
\* to the configuration.
ReceiveRequest_NoHeaderCheck(w) ==
    /\ pc = "idle"
    /\ handled < MaxRequests
    /\ rawBody' = w.body
    /\ signatureHeader' = w.header
    /\ pc' = "getRuntimeConfig"
    /\ UNCHANGED <<response, dateNow, sinkPosts>>
    /\ UNCHANGED <<storageFile, cachedConfig, webhookSecret, slackWebhookUrl,
                   sinkOutcome, handled>>
    /\ UNCHANGED <<builderVars, settingsVars, settingsRouteVars, loaderVars>>

\* Lines 74-79: the body and the header are read; a request without the
\* header is answered at once.
ReceiveRequest(w) ==
    /\ pc = "idle"
    /\ handled < MaxRequests
    /\ rawBody' = w.body
    /\ signatureHeader' = w.header
    /\ IF Falsy(w.header)
       THEN Return(ErrorResponse(400, "Missing signature header"), 0)
       ELSE /\ pc' = "getRuntimeConfig"
            /\ UNCHANGED <<response, dateNow, sinkPosts>>
    /\ UNCHANGED <<storageFile, cachedConfig, webhookSecret, slackWebhookUrl,
                   sinkOutcome, handled>>
    /\ UNCHANGED <<builderVars, settingsVars, settingsRouteVars, loaderVars>>

\* Line 81: await getRuntimeConfig() (runtime-config.ts lines 20-51): the
\* cached configuration, loaded from the file on first use.
AwaitRuntimeConfig ==
    /\ pc = "getRuntimeConfig"
    /\ LET config == IF cachedConfig # NullObject THEN cachedConfig
                     ELSE LoadConfig(storageFile)
       IN  /\ cachedConfig' = config
           /\ configVersions' = configVersions \cup {config}
           /\ webhookSecret' = config.jicooSecret
           /\ slackWebhookUrl' = config.slackWebhookUrl
    /\ pc' = "authenticate"
    /\ UNCHANGED <<storageFile, rawBody, signatureHeader, dateNow, sinkPosts,
                   sinkOutcome, response, handled>>
    /\ UNCHANGED <<builderVars, setCall, updates, settingsRouteVars, loaderVars>>

\* sendSlackNotification posting to the URL of the configuration current at
\* the time of the POST instead of the one the handler read.
Fetch_CurrentConfig(webhookUrl, payload, clock) ==
    /\ sinkPosts' = Append(sinkPosts, [url |-> cachedConfig.slackWebhookUrl,
                                       body |-> payload])
    /\ dateNow' = clock
    /\ pc' = "fetch"
    /\ response' = response

\* sendSlackNotification up to its await: fetch(webhookUrl, { method: 'POST', ... })
Fetch(webhookUrl, payload, clock) ==
    /\ sinkPosts' = Append(sinkPosts, [url |-> webhookUrl, body |-> payload])
    /\ dateNow' = clock
    /\ pc' = "fetch"
    /\ response' = response

\* The event check accepting every event whose name starts with "guest_".
isGuestBooked_AnyGuestEvent(payload) ==
    Get(payload, "event") \in {JString(<<"guest_booked">>), JString(<<"guest_cancelled">>)}

\* Line 115: payload.event === 'guest_booked'
isGuestBooked(payload) == Get(payload, "event") = JString(<<"guest_booked">>)

\* The handler parsing the body before it verifies the signature.
HandleRequest_ParseFirst(now) ==
    /\ pc = "authenticate"
    /\ LET parsedSignature == parseSignature(signatureHeader)
           json == JSONParse(rawBody)
       IN  IF Falsy(webhookSecret) \/ Falsy(slackWebhookUrl)
           THEN Return(ErrorResponse(503, "Runtime config missing"), 0)
           ELSE IF parsedSignature = NullObject
           THEN Return(ErrorResponse(400, "Invalid signature header"), 0)
           ELSE IF ~isFreshTimestamp(parsedSignature.timestamp, now)
           THEN Return(ErrorResponse(401, "Stale signature"), now)
           ELSE IF json.threw
           THEN Return(ErrorResponse(400, "Invalid JSON payload"), now)
           ELSE IF ~verifySignature(parsedSignature, rawBody, webhookSecret)
           THEN Return(ErrorResponse(401, "Invalid signature"), now)
           ELSE IF IsNullish(json.value)
           THEN Return(UnhandledError, now)
           ELSE IF ~isGuestBooked(json.value)
           THEN Return(IgnoredResponse(Get(json.value, "event")), now)
           ELSE IF buildSlackPayload(json.value).threw
           THEN Return(UnhandledError, now)
           ELSE Fetch(slackWebhookUrl,
                      [text |-> buildSlackPayload(json.value).text,
                       blocks |-> buildSlackPayload(json.value).blocks], now)
    /\ UNCHANGED <<storageFile, cachedConfig, rawBody, signatureHeader,
                   webhookSecret, slackWebhookUrl, sinkOutcome, handled>>
    /\ UNCHANGED <<builderVars, settingsVars, settingsRouteVars, loaderVars>>

\* Lines 82-122: everything between the configuration and the sink's answer.
HandleRequest(now) ==
    /\ pc = "authenticate"
    /\ LET parsedSignature == parseSignature(signatureHeader)
           json == JSONParse(rawBody)
       IN  IF Falsy(webhookSecret) \/ Falsy(slackWebhookUrl)
           THEN Return(ErrorResponse(503, "Runtime config missing"), 0)
           ELSE IF parsedSignature = NullObject
           THEN Return(ErrorResponse(400, "Invalid signature header"), 0)
           ELSE IF ~isFreshTimestamp(parsedSignature.timestamp, now)
           THEN Return(ErrorResponse(401, "Stale signature"), now)
           ELSE IF ~verifySignature(parsedSignature, rawBody, webhookSecret)
           THEN Return(ErrorResponse(401, "Invalid signature"), now)
           ELSE IF json.threw
           THEN Return(ErrorResponse(400, "Invalid JSON payload"), now)
           ELSE IF IsNullish(json.value)
           THEN Return(UnhandledError, now)
           ELSE IF ~isGuestBooked(json.value)
           THEN Return(IgnoredResponse(Get(json.value, "event")), now)
           ELSE IF buildSlackPayload(json.value).threw
           THEN Return(UnhandledError, now)
           ELSE Fetch(slackWebhookUrl,
                      [text |-> buildSlackPayload(json.value).text,
                       blocks |-> buildSlackPayload(json.value).blocks], now)
    /\ UNCHANGED <<storageFile, cachedConfig, rawBody, signatureHeader,
                   webhookSecret, slackWebhookUrl, sinkOutcome, handled>>
    /\ UNCHANGED <<builderVars, settingsVars, settingsRouteVars, loaderVars>>

\* What the sink does with a POST: a 2xx answer, another answer, or no answer
\* at all (the fetch rejects).
SinkOutcomes == {"2xx", "non2xx", "networkError"}

\* sendSlackNotification without the catch turning a rejected fetch into
\* { ok: false }: only a non-2xx answer counts as a failure.
sendSlackNotification_StatusOnly(outcome) == [ok |-> outcome # "non2xx"]

\* sendSlackNotification after its await: { ok } from the sink's outcome.
sendSlackNotification(outcome) == [ok |-> outcome = "2xx"]

\* Lines 122-127: the sink's outcome becomes the response.
SinkAnswers(outcome) ==
    /\ pc = "fetch"
    /\ IF ~sendSlackNotification(outcome).ok
       THEN Return(ErrorResponse(502, "Failed to notify Slack"), dateNow)
       ELSE Return(OkResponse, dateNow)
    /\ sinkOutcome' = outcome
    /\ UNCHANGED <<storageFile, cachedConfig, rawBody, signatureHeader,
                   webhookSecret, slackWebhookUrl, handled>>
    /\ UNCHANGED <<builderVars, settingsVars, settingsRouteVars, loaderVars>>

\* The response is sent; the handler's locals are gone.
SendResponse ==
    /\ pc = "done"
    /\ pc' = "idle"
    /\ handled' = handled + 1
    /\ rawBody' = <<>>
    /\ signatureHeader' = NULL
    /\ webhookSecret' = NULL
    /\ slackWebhookUrl' = NULL
    /\ dateNow' = 0
    /\ sinkPosts' = <<>>
    /\ sinkOutcome' = "none"
    /\ response' = NullObject
    /\ UNCHANGED <<storageFile, cachedConfig>>
    /\ UNCHANGED <<builderVars, settingsVars, settingsRouteVars, loaderVars>>

Next ==
    \/ \E w \in Webhooks : ReceiveRequest(w)
    \/ AwaitRuntimeConfig
    \/ \E now \in DateNowChoices : HandleRequest(now)
    \/ \E outcome \in SinkOutcomes : SinkAnswers(outcome)
    \/ SendResponse

Spec == Init /\ [][Next]_vars

(***************************************************************************)
(* The notification builder on its own                                     *)
(***************************************************************************)
\* A payload is given to the builder; no request is in flight.
BuilderInit ==
    /\ storageFile = [error |-> "ENOENT", content |-> JUndefined]
    /\ cachedConfig = NullObject
    /\ pc = "idle"
    /\ rawBody = <<>>
    /\ signatureHeader = NULL
    /\ webhookSecret = NULL
    /\ slackWebhookUrl = NULL
    /\ dateNow = 0
    /\ sinkPosts = <<>>
    /\ sinkOutcome = "none"
    /\ response = NullObject
    /\ handled = 0
    /\ builderInput \in EventPayloads
    /\ builderOutput = NullObject
    /\ setCall = NullObject
    /\ configVersions = {}
    /\ updates = 0
    /\ settingsBody = JUndefined
    /\ settingsResponse = NullObject
    /\ loadPromise = "null"
    /\ fileReads = 0
    /\ calls = <<>>

\* Line 121: buildSlackPayload(payload)
BuildSlackPayload ==
    /\ builderOutput = NullObject
    /\ builderOutput' = buildSlackPayload(builderInput)
    /\ UNCHANGED <<storageFile, cachedConfig, pc, rawBody, signatureHeader,
                   webhookSecret, slackWebhookUrl, dateNow, sinkPosts, sinkOutcome,
                   response, handled, builderInput>>
    /\ UNCHANGED <<settingsVars, settingsRouteVars, loaderVars>>

BuilderNext == BuildSlackPayload

BuilderSpec == BuilderInit /\ [][BuilderNext]_vars

(***************************************************************************)
(* Configuration updates: lib/runtime-config.ts, setRuntimeConfig          *)
(***************************************************************************)
\* Number of calls of setRuntimeConfig in one behaviour.
MaxUpdates == 1

\* A key that `partial` does not have, or has as undefined.
ABSENT == <<"<undefined>">>

SinkUrlB == <<"https:", "//", "hooks.slack.example/b">>

\* The arguments setRuntimeConfig is called with.
Partials ==
    {[slackWebhookUrl |-> SinkUrlB, jicooSecret |-> SecretB],
     [slackWebhookUrl |-> SinkUrlB, jicooSecret |-> ABSENT],
     [slackWebhookUrl |-> ABSENT, jicooSecret |-> SecretB],
     [slackWebhookUrl |-> SinkUrl, jicooSecret |-> SecretA],
     [slackWebhookUrl |-> NULL, jicooSecret |-> NULL],
     [slackWebhookUrl |-> ABSENT, jicooSecret |-> ABSENT]}

\* Line 53: setRuntimeConfig(partial) is called.
CallSetRuntimeConfig(partial) ==
    /\ setCall = NullObject
    /\ updates < MaxUpdates
    /\ setCall' = [pc |-> "getRuntimeConfig", partial |-> partial,
                   config |-> DEFAULT_CONFIG]
    /\ updates' = updates + 1
    /\ UNCHANGED <<storageFile, cachedConfig, pc, requestVars, handled,
                   builderVars, configVersions>>
    /\ UNCHANGED <<settingsRouteVars, loaderVars>>

\* Line 54: const current = await getRuntimeConfig()
SetAwaitRuntimeConfig ==
    /\ setCall # NullObject
    /\ setCall.pc = "getRuntimeConfig"
    /\ LET current == IF cachedConfig # NullObject THEN cachedConfig
                      ELSE LoadConfig(storageFile)
       IN  /\ cachedConfig' = current
           /\ configVersions' = configVersions \cup {current}
           /\ setCall' = [setCall EXCEPT !.pc = "update", !.config = current]
    /\ UNCHANGED <<storageFile, pc, requestVars, handled, builderVars, updates>>
    /\ UNCHANGED <<settingsRouteVars, loaderVars>>

\* Lines 55-65: a key of `partial` that is there and not undefined replaces
\* the current value.
Updated(partial, current) ==
    [slackWebhookUrl |-> IF partial.slackWebhookUrl # ABSENT
                         THEN partial.slackWebhookUrl ELSE current.slackWebhookUrl,
     jicooSecret |-> IF partial.jicooSecret # ABSENT
                     THEN partial.jicooSecret ELSE current.jicooSecret]

\* Lines 55-68: cachedConfig = updated, and persistConfig is called.
UpdateCachedConfig ==
    /\ setCall # NullObject
    /\ setCall.pc = "update"
    /\ LET updated == Updated(setCall.partial, setCall.config)
       IN  /\ cachedConfig' = updated
           /\ configVersions' = configVersions \cup {updated}
           /\ setCall' = [setCall EXCEPT !.pc = "persist", !.config = updated]
    /\ UNCHANGED <<storageFile, pc, requestVars, handled, builderVars, updates>>
    /\ UNCHANGED <<settingsRouteVars, loaderVars>>

\* JSON.stringify(config, null, 2) as the content of the file.
StringifyConfig(config) ==
    LET json(value) == IF value = NULL THEN JNull ELSE JString(value)
    IN  [error |-> "",
         content |-> JObject([slackWebhookUrl |-> json(config.slackWebhookUrl),
                              jicooSecret |-> json(config.jicooSecret)])]

\* persistConfig (lines 83-91): the file is written, or mkdir / writeFile
\* throws and the value stays in memory only.
PersistConfig(written) ==
    /\ setCall # NullObject
    /\ setCall.pc = "persist"
    /\ storageFile' = IF written THEN StringifyConfig(setCall.config) ELSE storageFile
    /\ setCall' = NullObject
    /\ UNCHANGED <<cachedConfig, pc, requestVars, handled, builderVars,
                   configVersions, updates>>
    /\ UNCHANGED <<settingsRouteVars, loaderVars>>

(***************************************************************************)
(* POST /api/settings (app/api/settings/route.ts)                          *)
(***************************************************************************)
\* What req.json() gives for a body that is not JSON.
SyntaxError == [type |-> "SyntaxError"]

\* Bodies of a settings POST: not JSON, the JSON null, and objects with a
\* slackWebhookUrl (a URL, an ftp URL, plain text, padded, blank, a number,
\* none) and a jicooSecret (a secret, blank, none).
SettingsBodies ==
    {SyntaxError, JNull}
    \cup {JObject(Field("slackWebhookUrl", url) @@ Field("jicooSecret", secret)) :
            url \in {JUndefined, JString(SinkUrlB), JString(FtpUrl), JString(RoomText),
                     JString(<<" ", "http:", "//", "hooks.slack.example/c", " ">>),
                     JString(<<" ">>), JNumber(1)},
            secret \in {JUndefined, JString(SecretB), JString(<<" ">>)}}

\* sanitizeString: the trimmed string; undefined (NULL) when the value is
\* not a string or nothing is left of it.
sanitizeString(value) ==
    IF value.type # "string" THEN NULL
    ELSE IF Len(Trim(value.str)) > 0 THEN Trim(value.str) ELSE NULL

\* isValidUrl accepting every string that parses as a URL, whatever its
\* scheme.
isValidUrl_AnyScheme(value) ==
    URLProtocol(value) # THROWN

\* isValidUrl: new URL(value) parses with protocol https: or http:.
isValidUrl(value) ==
    IF URLProtocol(value) = THROWN THEN FALSE
    ELSE URLProtocol(value) = <<"https:">> \/ URLProtocol(value) = <<"http:">>

\* NextResponse.json({ error }, { status }) of the settings route.
SettingsError(status, error) ==
    [status |-> status, error |-> error, ok |-> FALSE,
     hasSlackWebhookUrl |-> FALSE, hasJicooSecret |-> FALSE]

\* NextResponse.json({ ok: true, ... }) of the settings route (the masked
\* URL is left out).
SettingsOk(slackUrl, secret) ==
    [status |-> 200, error |-> "", ok |-> TRUE,
     hasSlackWebhookUrl |-> slackUrl # NULL, hasJicooSecret |-> secret # NULL]

\* A settings POST is being handled: its body is read and it has no
\* response yet.
SettingsInFlight == settingsBody # JUndefined /\ settingsResponse = NullObject

\* A settings POST arrives; the handler awaits req.json().
ReceiveSettings(body) ==
    /\ ~SettingsInFlight
    /\ settingsBody' = body
    /\ settingsResponse' = NullObject
    /\ UNCHANGED <<storageFile, cachedConfig, pc, requestVars, handled, builderVars,
                   settingsVars, loaderVars>>

\* POST of the settings route after req.json(): 400 for a body that is not
\* JSON or a slackWebhookUrl that is not an http(s) URL; otherwise
\* setRuntimeConfig is called with both keys (null for a missing or blank
\* one) and, not being awaited, is left in flight when the response is
\* returned. Reading a property of a null body throws. One call of
\* setRuntimeConfig is in flight at a time.
SettingsPost ==
    /\ SettingsInFlight
    /\ IF settingsBody = SyntaxError
       THEN /\ settingsResponse' = SettingsError(400, "Invalid JSON body")
            /\ UNCHANGED <<setCall, updates>>
       ELSE IF IsNullish(settingsBody)
       THEN /\ settingsResponse' = SettingsError(500, "Internal Server Error")
            /\ UNCHANGED <<setCall, updates>>
       ELSE LET slackUrl == sanitizeString(Get(settingsBody, "slackWebhookUrl"))
                secret == sanitizeString(Get(settingsBody, "jicooSecret"))
            IN  IF slackUrl # NULL /\ ~isValidUrl(slackUrl)
                THEN /\ settingsResponse' = SettingsError(400, "Invalid Slack webhook URL")
                     /\ UNCHANGED <<setCall, updates>>
                ELSE /\ setCall = NullObject
                     /\ updates < MaxUpdates
                     /\ setCall' = [pc |-> "getRuntimeConfig",
                                    partial |-> [slackWebhookUrl |-> slackUrl,
                                                 jicooSecret |-> secret],
                                    config |-> DEFAULT_CONFIG]
                     /\ updates' = updates + 1
                     /\ settingsResponse' = SettingsOk(slackUrl, secret)
    /\ UNCHANGED <<storageFile, cachedConfig, pc, requestVars, handled, builderVars,
                   configVersions, settingsBody, loaderVars>>

\* The requests made while the configuration is updated: bookings signed
\* with either secret, and one without a header.
ConfigWebhooks ==
    {[body |-> <<"{guest_booked}">>,
      header |-> Header(<<"1", "0", "0", "0">>,
                        SenderSignature(k, <<"1", "0", "0", "0">>, <<"{guest_booked}">>),
                        "standard")] : k \in SenderSecrets}
    \cup {[body |-> <<"{guest_booked}">>, header |-> NULL]}

\* The process starts with a settings file holding a URL and a secret, or
\* with none.
ConfigInit ==
    /\ Init
    /\ storageFile \in {[error |-> "ENOENT", content |-> JUndefined],
                         StringifyConfig([slackWebhookUrl |-> SinkUrl,
                                          jicooSecret |-> SecretA])}

ConfigNext ==
    \/ \E w \in ConfigWebhooks : ReceiveRequest(w)
    \/ AwaitRuntimeConfig
    \/ HandleRequest(1000000)
    \/ \E outcome \in SinkOutcomes : SinkAnswers(outcome)
    \/ SendResponse
    \/ \E partial \in Partials : CallSetRuntimeConfig(partial)
    \/ SetAwaitRuntimeConfig
    \/ UpdateCachedConfig
    \/ \E written \in BOOLEAN : PersistConfig(written)

\* POST /api/jicoo interleaved with setRuntimeConfig.
ConfigSpec == ConfigInit /\ [][ConfigNext]_vars

SettingsNext ==
    \/ \E body \in SettingsBodies : ReceiveSettings(body)
    \/ SettingsPost
    \/ SetAwaitRuntimeConfig
    \/ UpdateCachedConfig
    \/ \E written \in BOOLEAN : PersistConfig(written)

\* POST /api/settings and the setRuntimeConfig calls it starts.
SettingsSpec == ConfigInit /\ [][SettingsNext]_vars

(***************************************************************************)
(* lib/runtime-config.ts with calls in flight at the same time             *)
(***************************************************************************)
\* Number of calls of getRuntimeConfig and setRuntimeConfig in one behaviour.
MaxCalls == 3

\* What a call does: getRuntimeConfig alone ("get"), or setRuntimeConfig with
\* a partial configuration.
CallKinds ==
    {[kind |-> "get", partial |-> [slackWebhookUrl |-> ABSENT, jicooSecret |-> ABSENT]]}
    \cup {[kind |-> "set", partial |-> partial] :
            partial \in {[slackWebhookUrl |-> SinkUrlB, jicooSecret |-> ABSENT],
                         [slackWebhookUrl |-> ABSENT, jicooSecret |-> SecretB]}}

\* getRuntimeConfig up to its first await ignoring the load in flight: a
\* load is started whenever nothing is cached.
getRuntimeConfig_NoDedupe(cached, promise) ==
    IF cached # NullObject THEN "cached" ELSE "load"

\* getRuntimeConfig up to its first await (lines 21-28): the cached
\* configuration, the load in flight, or a new load.
getRuntimeConfig(cached, promise) ==
    IF cached # NullObject THEN "cached"
    ELSE IF promise # "null" THEN "join"
    ELSE "load"

\* A call starts and runs to its first await. `current` is what its
\* getRuntimeConfig() resolves to, `updated` what setRuntimeConfig assigns.
StartCall(what) ==
    /\ Len(calls) < MaxCalls
    /\ LET branch == getRuntimeConfig(cachedConfig, loadPromise)
           call == [kind |-> what.kind, partial |-> what.partial,
                    pc |-> IF branch = "cached" THEN "resume" ELSE "awaitLoad",
                    branch |-> branch,
                    current |-> IF branch = "cached" THEN cachedConfig ELSE DEFAULT_CONFIG,
                    updated |-> DEFAULT_CONFIG,
                    written |-> FALSE]
       IN  /\ calls' = Append(calls, call)
           /\ loadPromise' = IF branch = "load" THEN "pending" ELSE loadPromise
           /\ fileReads' = IF branch = "load" THEN fileReads + 1 ELSE fileReads
    /\ UNCHANGED <<storageFile, cachedConfig, pc, requestVars, handled, builderVars,
                   settingsVars, settingsRouteVars>>

\* Lines 29-43: readFile settles, the load sets cachedConfig and its promise
\* resolves for every call awaiting it.
LoadSettles ==
    /\ loadPromise = "pending"
    /\ LET loaded == LoadConfig(storageFile)
       IN  /\ cachedConfig' = loaded
           /\ calls' = [i \in DOMAIN calls |->
                          IF calls[i].pc = "awaitLoad"
                          THEN [calls[i] EXCEPT !.pc = "resume", !.current = loaded]
                          ELSE calls[i]]
    /\ loadPromise' = "settled"
    /\ UNCHANGED <<storageFile, fileReads, pc, requestVars, handled, builderVars,
                   settingsVars, settingsRouteVars>>

\* A call resumes with the configuration it awaited: the call that started
\* the load clears loadPromise (lines 46-50), setRuntimeConfig replaces
\* cachedConfig and calls persistConfig (lines 55-68).
ResumeCall(i) ==
    /\ i \in DOMAIN calls
    /\ calls[i].pc = "resume"
    /\ loadPromise' = IF calls[i].branch = "load" THEN "null" ELSE loadPromise
    /\ IF calls[i].kind = "get"
       THEN /\ calls' = [calls EXCEPT ![i].pc = "returned"]
            /\ UNCHANGED cachedConfig
       ELSE LET updated == Updated(calls[i].partial, calls[i].current)
            IN  /\ cachedConfig' = updated
                /\ calls' = [calls EXCEPT ![i].pc = "persist", ![i].updated = updated]
    /\ UNCHANGED <<storageFile, fileReads, pc, requestVars, handled, builderVars,
                   settingsVars, settingsRouteVars>>

\* persistConfig of a call settles (lines 83-91): the file is written, or
\* writing throws and the error is logged.
PersistSettles(i, written) ==
    /\ i \in DOMAIN calls
    /\ calls[i].pc = "persist"
    /\ storageFile' = IF written THEN StringifyConfig(calls[i].updated) ELSE storageFile
    /\ calls' = [calls EXCEPT ![i].pc = "returned", ![i].written = written]
    /\ UNCHANGED <<cachedConfig, loadPromise, fileReads, pc, requestVars, handled,
                   builderVars, settingsVars, settingsRouteVars>>

RuntimeConfigNext ==
    \/ \E what \in CallKinds : StartCall(what)
    \/ LoadSettles
    \/ \E i \in 1..MaxCalls : ResumeCall(i)
    \/ \E i \in 1..MaxCalls, written \in BOOLEAN : PersistSettles(i, written)

\* Calls of getRuntimeConfig and setRuntimeConfig in any interleaving.
RuntimeConfigSpec == ConfigInit /\ [][RuntimeConfigNext]_vars

(***************************************************************************)
(* Properties                                                              *)
(***************************************************************************)
\* The handler read a secret and a sink URL, both non-empty.
ConfigPresent == ~Falsy(webhookSecret) /\ ~Falsy(slackWebhookUrl)

\* The header's t and v1 entries (NULL when the header has none).
HeaderT == PartsLookup(Split(signatureHeader, ","), <<"t">>)
HeaderV1 == PartsLookup(Split(signatureHeader, ","), <<"v", "1">>)

\* The header is present and has a numeric t and a v1.
WellFormedHeader ==
    /\ ~Falsy(signatureHeader)
    /\ HeaderT # NULL
    /\ HeaderV1 # NULL
    /\ ~NumberIsNaN(StringToNumber(HeaderT))

\* |now_seconds - t| <= 300 for the header's t and the clock the handler read.
InReplayWindow ==
    LET t == StringToNumber(HeaderT)
        scale == Pow10(t.s)
        now == dateNow \div 1000
    IN  /\ t.kind = "finite"
        /\ now * scale - t.n <= 300 * scale
        /\ t.n - now * scale <= 300 * scale

\* The bytes the v1 entry decodes to.
ProvidedBytes == BufferFromHex(HeaderV1)

\* HMAC-SHA256 of "<decimal timestamp>.<raw body>" under the configured secret.
ExpectedBytes ==
    HmacSha256(webhookSecret,
               NumberToString(StringToNumber(HeaderT)) \o <<".">> \o rawBody)

SignatureMatches ==
    /\ Len(ProvidedBytes) = SHA256_BYTES
    /\ \A i \in 1..SHA256_BYTES : ProvidedBytes[i] = ExpectedBytes[i]

\* C1: a request whose v1 decodes to bytes other than the HMAC-SHA256 of
\* "<t>.<rawBody>" under the configured secret is answered 401 and makes no
\* POST to the sink; when its timestamp is in the replay window, so that the
\* signature is what decides, the answer is 401 "Invalid signature".
C1_NoFalseAccept ==
    (ConfigPresent /\ WellFormedHeader /\ ~SignatureMatches)
        => /\ sinkPosts = <<>>
           /\ pc = "done" => response.status = 401
           /\ (pc = "done" /\ InReplayWindow)
                 => response = ErrorResponse(401, "Invalid signature")

\* A fresh request whose v1 differs from the expected digest in one byte.
C1_Witness ==
    /\ pc = "done"
    /\ ConfigPresent /\ WellFormedHeader /\ InReplayWindow
    /\ Len(ProvidedBytes) = SHA256_BYTES
    /\ Cardinality({i \in 1..SHA256_BYTES : ProvidedBytes[i] # ExpectedBytes[i]}) = 1
    /\ response = ErrorResponse(401, "Invalid signature")
    /\ sinkPosts = <<>>

\* The header's t is the plain decimal numeral of the current time in seconds.
TimestampIsNow == HeaderT = NatToString(dateNow \div 1000)

\* The bodies that are a guest_booked payload of the shape JicooEventPayload.
BookingBodies == {<<"{guest_booked}">>, <<"{readme}">>, <<"{answers}">>}

\* C2: with secret and sink URL configured, a request whose header carries
\* the current time as t and, as v1, the lowercase-hex HMAC-SHA256 of
\* "<t>.<raw body>", whose body's event is guest_booked and whose POST the
\* sink answers 2xx, gets 200 {ok: true}, and the sink got exactly one POST.
C2_SignedBookingForwarded ==
    (/\ pc = "done" /\ ConfigPresent /\ WellFormedHeader
     /\ dateNow # 0 /\ TimestampIsNow
     /\ HeaderV1 = SenderSignature(webhookSecret, HeaderT, rawBody)
     /\ rawBody \in BookingBodies
     /\ sinkOutcome \in {"none", "2xx"})
        => /\ response = OkResponse
           /\ sinkOutcome = "2xx"
           /\ Len(sinkPosts) = 1
           /\ sinkPosts[1].url = slackWebhookUrl

C2_Witness ==
    /\ pc = "done" /\ ConfigPresent /\ TimestampIsNow
    /\ HeaderV1 = SenderSignature(webhookSecret, HeaderT, rawBody)
    /\ rawBody = <<"{readme}">>
    /\ sinkOutcome = "2xx"
    /\ response = OkResponse
    /\ Len(sinkPosts) = 1

\* The configuration the process serves requests with: the cached one, or
\* what the first load will read.
EffectiveConfig ==
    IF cachedConfig # NullObject THEN cachedConfig ELSE LoadConfig(storageFile)

ConfigMissing ==
    Falsy(EffectiveConfig.jicooSecret) \/ Falsy(EffectiveConfig.slackWebhookUrl)

\* C3: when the secret or the sink URL is not configured, every request,
\* whatever its signature header, is answered 503 and the sink is not called.
C3_ConfigMissingAlways503 ==
    ConfigMissing
        => /\ sinkPosts = <<>>
           /\ pc = "done" => response.status = 503

\* C4: a header timestamp t with |now_seconds - t| > 300 is rejected with
\* 401 "Stale signature" whatever the signature; with |now_seconds - t| <= 300
\* (300 included) the freshness check passes.
C4_ReplayWindow ==
    (pc = "done" /\ ConfigPresent /\ WellFormedHeader)
        => /\ ~InReplayWindow
              => (response = ErrorResponse(401, "Stale signature") /\ sinkPosts = <<>>)
           /\ InReplayWindow => response # ErrorResponse(401, "Stale signature")

\* A correctly signed request 301 s in the future is rejected as stale, and
\* (C4_WitnessBoundary) one exactly 300 s in the past passes the check.
C4_Witness ==
    /\ pc = "done" /\ ConfigPresent /\ WellFormedHeader
    /\ SignatureMatches
    /\ StringToNumber(HeaderT) = Finite((dateNow \div 1000) + 301, 0)
    /\ response = ErrorResponse(401, "Stale signature")

\* C5: a v1 that is not well-formed hex (a non-hex character, an odd number
\* of digits) or that decodes to other than 32 bytes is answered 401
\* "Invalid signature".
C5_MalformedHexRejected ==
    (/\ pc = "done" /\ ConfigPresent /\ WellFormedHeader /\ InReplayWindow
     /\ \/ ~AllHexDigits(HeaderV1)
        \/ Len(HeaderV1) % 2 = 1
        \/ Len(ProvidedBytes) # SHA256_BYTES)
        => response = ErrorResponse(401, "Invalid signature")

\* C6: a POST to the sink is made only after, for the same request, the
\* configuration was present, the header present and well-formed, the
\* timestamp fresh, the signature valid, the body parsed as JSON and the
\* event guest_booked; a request answered 400, 401 or 503 made no POST.
C6_SinkOnlyAfterAllChecks ==
    /\ sinkPosts # <<>>
          => /\ ConfigPresent /\ WellFormedHeader /\ InReplayWindow
             /\ SignatureMatches
             /\ ~JSONParse(rawBody).threw
             /\ Get(JSONParse(rawBody).value, "event") = JString(<<"guest_booked">>)
    /\ (pc = "done" /\ response.status \in {400, 401, 503}) => sinkPosts = <<>>

C6_Witness ==
    /\ sinkPosts # <<>>
    /\ ConfigPresent /\ WellFormedHeader /\ InReplayWindow /\ SignatureMatches
    /\ rawBody = <<"{guest_booked}">>

\* The header with every space removed.
HeaderNoSpaces == SelectSeq(signatureHeader, LAMBDA c : c # " ")

\* The header, read without its whitespace, lacks t, lacks v1, or has a t
\* that is not a number.
HeaderMalformed ==
    LET parts == Split(HeaderNoSpaces, ",")
        t == PartsLookup(parts, <<"t">>)
    IN  \/ t = NULL
        \/ PartsLookup(parts, <<"v", "1">>) = NULL
        \/ NumberIsNaN(StringToNumber(t))

\* C7: a header that lacks t, lacks v1 or whose t is non-numeric is answered
\* 400 "Invalid signature header", and no other header is; whitespace around
\* "=" and "," makes no difference.
C7_MalformedHeader ==
    (pc = "done" /\ ConfigPresent /\ ~Falsy(signatureHeader))
        => (HeaderMalformed <=> response = ErrorResponse(400, "Invalid signature header"))

\* A header whose t is not a number.
C7_Witness ==
    /\ pc = "done" /\ ConfigPresent
    /\ HeaderT # NULL /\ HeaderV1 # NULL /\ NumberIsNaN(StringToNumber(HeaderT))
    /\ response = ErrorResponse(400, "Invalid signature header")

\* A header with spaces around "=" and "," that is not malformed.
C7_WitnessWhitespace ==
    /\ pc = "done" /\ ConfigPresent
    /\ Len(signatureHeader) > Len(HeaderNoSpaces) + 1
    /\ response = OkResponse

\* C8: a t that is not a plain decimal integer ("1e9", "0x10", "12.5",
\* "Infinity") is answered 400 "Invalid signature header".
C8_NonDecimalTimestampMalformed ==
    (/\ pc = "done" /\ ConfigPresent
     /\ HeaderT # NULL /\ HeaderV1 # NULL
     /\ ~AllDigits(HeaderT))
        => response = ErrorResponse(400, "Invalid signature header")

\* The request passed the authenticator and its body is a JSON value with
\* properties.
ValidlySigned == ConfigPresent /\ WellFormedHeader /\ InReplayWindow /\ SignatureMatches

\* C9: a validly signed request whose event is not guest_booked is answered
\* 200 {ok: true, ignoredEvent: <event>}; no POST is made to the sink.
C9_OtherEventsIgnored ==
    (/\ ValidlySigned
     /\ ~JSONParse(rawBody).threw
     /\ ~IsNullish(JSONParse(rawBody).value)
     /\ Get(JSONParse(rawBody).value, "event") # JString(<<"guest_booked">>))
        => /\ sinkPosts = <<>>
           /\ pc = "done"
                 => response = IgnoredResponse(Get(JSONParse(rawBody).value, "event"))

C9_Witness ==
    /\ pc = "done" /\ ValidlySigned
    /\ rawBody = <<"{guest_cancelled}">>
    /\ response = IgnoredResponse(JString(<<"guest_cancelled">>))
    /\ sinkPosts = <<>>

\* C10: when the sink answers non-2xx or the POST fails in transport, the
\* answer is 502 "Failed to notify Slack"; a request makes at most one POST.
C10_SinkFailureIs502 ==
    /\ Len(sinkPosts) <= 1
    /\ sinkOutcome # "none" => Len(sinkPosts) = 1
    /\ sinkOutcome \in {"non2xx", "networkError"}
          => response = ErrorResponse(502, "Failed to notify Slack")

\* The POST failed in transport.
C10_Witness ==
    /\ pc = "done"
    /\ sinkOutcome = "networkError"
    /\ Len(sinkPosts) = 1
    /\ response = ErrorResponse(502, "Failed to notify Slack")

\* C11: a request that carries no signature header is answered 400
\* "Missing signature header", whatever the configuration and the body, and
\* makes no POST to the sink.
C11_MissingHeader ==
    signatureHeader = NULL
        => /\ sinkPosts = <<>>
           /\ pc \in {"idle", "done"}
           /\ pc = "done" => response = ErrorResponse(400, "Missing signature header")

\* A request without the header, received while the configuration is there.
C11_Witness ==
    /\ pc = "done"
    /\ signatureHeader = NULL
    /\ cachedConfig # NullObject /\ ~ConfigMissing
    /\ response = ErrorResponse(400, "Missing signature header")
    /\ sinkPosts = <<>>

\* C12: the signature is computed over the raw body and checked before the
\* body is parsed: of the requests that reach the signature check, one whose
\* body is not JSON is answered 400 "Invalid JSON payload" when its signature
\* is valid and 401 "Invalid signature" when it is not, and for every body,
\* JSON or not, the answer is 401 "Invalid signature" exactly when the
\* signature over the raw body does not match.
C12_SignatureBeforeParsing ==
    (pc = "done" /\ ConfigPresent /\ WellFormedHeader /\ InReplayWindow)
        => /\ (response = ErrorResponse(401, "Invalid signature")) <=> ~SignatureMatches
           /\ JSONParse(rawBody).threw
                 => (response = ErrorResponse(400, "Invalid JSON payload")) <=> SignatureMatches

\* A body that is not JSON, with a signature that does not match.
C12_Witness ==
    /\ pc = "done" /\ ConfigPresent /\ WellFormedHeader /\ InReplayWindow
    /\ JSONParse(rawBody).threw
    /\ ~SignatureMatches
    /\ response = ErrorResponse(401, "Invalid signature")

\* A body that is not JSON, validly signed.
C12_WitnessSigned ==
    /\ pc = "done" /\ ValidlySigned
    /\ JSONParse(rawBody).threw
    /\ response = ErrorResponse(400, "Invalid JSON payload")

\* C13: every validly signed body that parses as JSON, whatever its shape,
\* ends in a documented response (200 {ok}, 200 {ok, ignoredEvent} or 502)
\* and message building never fails.
C13_EveryJsonBodyHandled ==
    (pc = "done" /\ ValidlySigned /\ ~JSONParse(rawBody).threw)
        => /\ response # UnhandledError
           /\ response.status \in {200, 502}

\* The builder returned a message for the payload it was given.
Built == builderOutput # NullObject /\ ~builderOutput.threw

\* The value on the i-th "<label>: <value>" line of the text.
TextValue(i) ==
    LET line == builderOutput.text[i + 1] IN SubSeq(line, 4, Len(line))

\* The value of the i-th field of the section block.
BlockValue(i) ==
    LET field == builderOutput.blocks[2].fields[i].text IN SubSeq(field, 5, Len(field))

\* Places of the six fields in the text and in the section.
FieldPlace == [name |-> 1, email |-> 2, phone |-> 3, start |-> 4, end |-> 5, meet |-> 6]

BookingObject == Get(builderInput, "object")

\* The text is a timestamp the formatter can render.
Formattable(value) ==
    \/ value.type = "number"
    \/ value.type = "string" /\ DateParse(value.str).valid

\* C14: a start or end timestamp that is absent, or present but not
\* parseable as a date, is rendered as the fallback placeholder, never as the
\* raw input.
C14_UnparseableDateIsFallback ==
    Built =>
        \A i \in {FieldPlace.start, FieldPlace.end} :
            LET dateTime == OptGet(BookingObject,
                                   IF i = FieldPlace.start THEN "startedAt" ELSE "endedAt")
            IN  ~Formattable(dateTime) => TextValue(i) = FALLBACK_TEXT

\* The ten candidates in the order of the claim, as paths into the booking
\* object.
CandidatePaths ==
    <<<<"googleMeetUrl">>, <<"hangoutLink">>, <<"hangoutUrl">>, <<"conferenceUrl">>,
      <<"meetingUrl">>, <<"meeting", "url">>, <<"meeting", "link">>,
      <<"location", "url">>, <<"location", "link">>, <<"location", "value">>>>

Candidate(i) ==
    LET path == CandidatePaths[i]
    IN  IF Len(path) = 1 THEN OptGet(BookingObject, path[1])
        ELSE OptGet(OptGet(BookingObject, path[1]), path[2])

\* The candidate, trimmed, parses as an http or https URL.
IsHttpUrl(value) ==
    /\ value.type = "string"
    /\ URLProtocol(Trim(value.str)) \in {<<"https:">>, <<"http:">>}

\* C15: the meeting link is the first of the ten candidates, in the fixed
\* order, that after trimming parses as an http(s) URL; candidates before it
\* that are present but not such a URL are passed over.
C15_FirstUrlCandidate ==
    Built =>
        \A i \in DOMAIN CandidatePaths :
            (IsHttpUrl(Candidate(i)) /\ \A j \in 1..(i - 1) : ~IsHttpUrl(Candidate(j)))
                => TextValue(FieldPlace.meet) = Trim(Candidate(i).str)

\* conferenceUrl holds plain text and meetingUrl, the next candidate, a URL
\* that becomes the link.
C15_Witness ==
    /\ Built
    /\ Candidate(4) = JString(RoomText)
    /\ Candidate(5) = JString(MeetUrlPadded)
    /\ TextValue(FieldPlace.meet) = Trim(MeetUrlPadded)

\* Two candidates hold different URLs and the earlier one becomes the link.
C15_WitnessOrder ==
    /\ Built
    /\ Candidate(7) = JString(MeetUrlA)
    /\ Candidate(8) = JString(MeetUrlB)
    /\ TextValue(FieldPlace.meet) = MeetUrlA

\* The field of the nested booking contact when it is non-empty after
\* trimming, else that of the top-level contact, else the placeholder.
PerFieldContact(key) ==
    OrElse(normalizeText(OptGet(OptGet(BookingObject, "contact"), key)),
           OrElse(normalizeText(OptGet(Get(builderInput, "contact"), key)),
                  FALLBACK_TEXT))

\* C16: name and email, each on its own, are the trimmed value of the nested
\* booking contact when non-empty, otherwise the trimmed value of the
\* top-level contact when non-empty, otherwise the placeholder.
C16_ContactPerField ==
    Built => /\ TextValue(FieldPlace.name) = PerFieldContact("name")
             /\ TextValue(FieldPlace.email) = PerFieldContact("email")

\* The payload has no contact object, no answers and no meeting-link field.
NoContactAnswersLinks ==
    /\ IsNullish(OptGet(BookingObject, "contact"))
    /\ IsNullish(Get(builderInput, "contact"))
    /\ IsNullish(OptGet(BookingObject, "answers"))
    /\ IsNullish(Get(builderInput, "answers"))
    /\ \A i \in DOMAIN CandidatePaths : Candidate(i) = JUndefined

\* C17 as stated: with no contact object, no answers and no meeting-link
\* fields, all six fields are the placeholder, in the text and in the blocks.
C17_AllSixFallback ==
    (Built /\ NoContactAnswersLinks)
        => \A i \in 1..6 : TextValue(i) = FALLBACK_TEXT /\ BlockValue(i) = FALLBACK_TEXT

\* C17 as amended: with no contact object, no answers, no meeting-link
\* fields and no start or end timestamp, all six fields are the placeholder,
\* in the text and in the blocks.
C17_AllSixFallbackNoDates ==
    (/\ Built /\ NoContactAnswersLinks
     /\ IsNullish(OptGet(BookingObject, "startedAt"))
     /\ IsNullish(OptGet(BookingObject, "endedAt")))
        => \A i \in 1..6 : TextValue(i) = FALLBACK_TEXT /\ BlockValue(i) = FALLBACK_TEXT

\* A booking whose object is null and that has nothing else.
C17_Witness ==
    /\ Built
    /\ builderInput = Booking(JNull, JUndefined, JUndefined)
    /\ \A i \in 1..6 : TextValue(i) = FALLBACK_TEXT /\ BlockValue(i) = FALLBACK_TEXT

\* C18: the text and the blocks carry the same six values in the same order:
\* the text is the heading and six lines "<label>: <value>", the section has
\* six fields "*<label>*\n<value>", and the i-th of each has the i-th label
\* and the same value.
C18_TextAndBlocksAgree ==
    Built =>
        /\ Len(builderOutput.text) = 7
        /\ Len(builderOutput.blocks[2].fields) = 6
        /\ \A i \in 1..6 :
            /\ SubSeq(builderOutput.text[i + 1], 1, 3) = <<"- ", FieldLabels[i], ": ">>
            /\ SubSeq(builderOutput.blocks[2].fields[i].text, 1, 4)
                  = <<"*", FieldLabels[i], "*", "LF">>
            /\ TextValue(i) = BlockValue(i)

\* A message whose six values all differ from one another and from the
\* placeholder.
C18_Witness ==
    /\ Built
    /\ Cardinality({TextValue(i) : i \in 1..6} \cup {FALLBACK_TEXT}) = 7
    /\ \A i \in 1..6 : TextValue(i) = BlockValue(i)

\* The contact record the builder reads: the nested booking contact, the
\* top-level one when there is none.
ContactRecord ==
    Coalesce(OptGet(BookingObject, "contact"), Get(builderInput, "contact"))

\* Booking-level answers, then top-level answers, in their source order.
AnswersInOrder ==
    LET list(value) == IF value.type = "array" THEN value.items ELSE <<>>
    IN  list(OptGet(BookingObject, "answers")) \o list(Get(builderInput, "answers"))

\* The answer's question matches the phone pattern and its content (its
\* value when it has no content) is non-empty.
IsPhoneAnswer(answer) ==
    /\ Get(answer, "question").type = "string"
    /\ RegExpTest(PHONE_QUESTION_PATTERN, Get(answer, "question").str)
    /\ normalizeAnswerValue(Coalesce(Get(answer, "content"), Get(answer, "value"))) # NULL

\* C20: the phone field is the trimmed contact phone when non-empty;
\* otherwise the normalized content of the first answer, booking-level
\* answers before top-level ones, whose question matches the phone pattern
\* and whose content is non-empty; otherwise the placeholder.
C20_PhoneField ==
    Built =>
        LET contactPhone == normalizeText(OptGet(ContactRecord, "phone"))
            answers == AnswersInOrder
            phoneAnswers == {i \in DOMAIN answers : IsPhoneAnswer(answers[i])}
            first == CHOOSE i \in phoneAnswers : \A j \in phoneAnswers : i <= j
        IN  TextValue(FieldPlace.phone) =
                IF contactPhone # NULL THEN contactPhone
                ELSE IF phoneAnswers # {}
                THEN normalizeAnswerValue(Coalesce(Get(answers[first], "content"),
                                                   Get(answers[first], "value")))
                ELSE FALLBACK_TEXT

\* No contact phone; the first matching answer has an empty content, the
\* second one a list, and a top-level answer that matches comes after them.
C20_Witness ==
    /\ Built
    /\ normalizeText(OptGet(ContactRecord, "phone")) = NULL
    /\ Len(AnswersInOrder) = 3
    /\ {i \in 1..3 : IsPhoneAnswer(AnswersInOrder[i])} = {2, 3}
    /\ TextValue(FieldPlace.phone) = <<"Grand", ",", " ", "Inn">>

\* The contact phone wins over a matching answer.
C20_WitnessContact ==
    /\ Built
    /\ OptGet(ContactRecord, "phone") = JString(<<" ", "03-1111", " ">>)
    /\ \E i \in DOMAIN AnswersInOrder : IsPhoneAnswer(AnswersInOrder[i])
    /\ TextValue(FieldPlace.phone) = <<"03-1111">>

\* C19: a request that makes a POST verified its signature with the secret
\* of some configuration version and sent the POST to the sink URL of that
\* same version, however calls of setRuntimeConfig are interleaved with it.
C19_OneConfigVersion ==
    sinkPosts # <<>>
        => \E version \in configVersions :
              /\ ~Falsy(version.jicooSecret)
              /\ verifySignature(parseSignature(signatureHeader), rawBody,
                                 version.jicooSecret)
              /\ sinkPosts[1].url = version.slackWebhookUrl

\* The request read one version, setRuntimeConfig then replaced both the
\* secret and the URL, and the POST went to the URL the request had read.
C19_Witness ==
    /\ sinkPosts # <<>>
    /\ cachedConfig # NullObject
    /\ cachedConfig.jicooSecret = SecretB /\ webhookSecret = SecretA
    /\ cachedConfig.slackWebhookUrl = SinkUrlB
    /\ sinkPosts[1].url = SinkUrl

\* The answer's question matches the meeting-question pattern and its
\* content (its value when it has no content) parses as an http(s) URL.
IsMeetUrlAnswer(answer) ==
    LET normalized == normalizeAnswerValue(Coalesce(Get(answer, "content"),
                                                   Get(answer, "value")))
    IN  /\ Get(answer, "question").type = "string"
        /\ RegExpTest(GOOGLE_MEET_QUESTION_PATTERN, Get(answer, "question").str)
        /\ normalized # NULL
        /\ URLProtocol(normalized) \in {<<"https:">>, <<"http:">>}

\* C21: the answers decide the meeting link only when no candidate field
\* qualifies; then, if an answer matching the meeting-question pattern has a
\* value that parses as an http(s) URL, that URL is the link, and if nothing
\* qualifies the link is the placeholder.
C21_LinkFromAnswers ==
    (Built /\ \A i \in DOMAIN CandidatePaths : ~IsHttpUrl(Candidate(i)))
        => LET answers == AnswersInOrder
               urlAnswers == {i \in DOMAIN answers : IsMeetUrlAnswer(answers[i])}
           IN  IF urlAnswers = {} THEN TextValue(FieldPlace.meet) = FALLBACK_TEXT
               ELSE \E i \in urlAnswers :
                       TextValue(FieldPlace.meet) =
                           normalizeAnswerValue(Coalesce(Get(answers[i], "content"),
                                                         Get(answers[i], "value")))

\* The answer's question matches the meeting-question pattern and its
\* content (its value when it has no content) is non-empty.
IsMeetAnswer(answer) ==
    /\ Get(answer, "question").type = "string"
    /\ RegExpTest(GOOGLE_MEET_QUESTION_PATTERN, Get(answer, "question").str)
    /\ normalizeAnswerValue(Coalesce(Get(answer, "content"), Get(answer, "value"))) # NULL

\* C21 as amended: when no candidate field qualifies, the link is the value
\* of the first answer that matches the meeting-question pattern and has a
\* non-empty value, if that value parses as an http(s) URL; otherwise, and
\* when no answer matches, the link is the placeholder.
C21_LinkFromFirstAnswer ==
    (Built /\ \A i \in DOMAIN CandidatePaths : ~IsHttpUrl(Candidate(i)))
        => LET answers == AnswersInOrder
               meetAnswers == {i \in DOMAIN answers : IsMeetAnswer(answers[i])}
               first == CHOOSE i \in meetAnswers : \A j \in meetAnswers : i <= j
           IN  TextValue(FieldPlace.meet) =
                   IF meetAnswers # {} /\ IsMeetUrlAnswer(answers[first])
                   THEN normalizeAnswerValue(Coalesce(Get(answers[first], "content"),
                                                      Get(answers[first], "value")))
                   ELSE FALLBACK_TEXT

\* A candidate field holds plain text, and the link comes from an answer.
C21_Witness ==
    /\ Built
    /\ Candidate(1) = JString(RoomText)
    /\ \A i \in DOMAIN CandidatePaths : ~IsHttpUrl(Candidate(i))
    /\ AnswersInOrder # <<>>
    /\ IsMeetUrlAnswer(AnswersInOrder[1])
    /\ TextValue(FieldPlace.meet) = MeetUrlA

\* The first matching answer is not a URL: the link is the placeholder.
C21_WitnessNotUrl ==
    /\ Built
    /\ \E i \in DOMAIN AnswersInOrder :
          IsMeetAnswer(AnswersInOrder[i]) /\ ~IsMeetUrlAnswer(AnswersInOrder[i])
    /\ TextValue(FieldPlace.meet) = FALLBACK_TEXT

(***************************************************************************)
(* Concurrent calls of lib/runtime-config.ts                               *)
(***************************************************************************)
\* The calls that have what their getRuntimeConfig() resolved to.
Received == {i \in DOMAIN calls : calls[i].pc # "awaitLoad"}

\* The calls of setRuntimeConfig that have assigned cachedConfig.
Assigned == {i \in DOMAIN calls : calls[i].kind = "set" /\ calls[i].pc \in {"persist", "returned"}}

\* C22: however the calls interleave, the storage file is read at most once,
\* all calls that awaited the load receive the same configuration, and until
\* a setRuntimeConfig replaces it every call receives that loaded
\* configuration, which is what the file holds.
C22_LoadedOnce ==
    /\ fileReads <= 1
    /\ \A i, j \in Received :
         (calls[i].branch # "cached" /\ calls[j].branch # "cached")
            => calls[i].current = calls[j].current
    /\ Assigned = {} =>
         \A i \in Received : /\ calls[i].current = cachedConfig
                             /\ calls[i].current = LoadConfig(storageFile)

\* C22 witness: a call started the load, another joined it while it was in
\* flight and a third came once it was cached; all three have returned the
\* configuration of the file, read once.
C22_Witness ==
    /\ Len(calls) = 3
    /\ calls[1].branch = "load" /\ calls[2].branch = "join" /\ calls[3].branch = "cached"
    /\ \A i \in 1..3 : /\ calls[i].kind = "get"
                       /\ calls[i].pc = "returned"
                       /\ calls[i].current.jicooSecret = SecretA
    /\ fileReads = 1

\* All calls started have returned.
AllReturned == \A i \in DOMAIN calls : calls[i].pc = "returned"

\* C25: when a call setting only slackWebhookUrl and a call setting only
\* jicooSecret have both completed (and no other setRuntimeConfig ran), the
\* cached configuration has both new values.
C25_NoLostUpdate ==
    (/\ AllReturned
     /\ \E i, j \in DOMAIN calls :
          /\ calls[i].kind = "set" /\ calls[j].kind = "set"
          /\ calls[i].partial = [slackWebhookUrl |-> SinkUrlB, jicooSecret |-> ABSENT]
          /\ calls[j].partial = [slackWebhookUrl |-> ABSENT, jicooSecret |-> SecretB]
          /\ \A k \in DOMAIN calls : calls[k].kind = "set" => k \in {i, j})
    => cachedConfig = [slackWebhookUrl |-> SinkUrlB, jicooSecret |-> SecretB]

\* C26: once every setRuntimeConfig call has completed and each one's write
\* succeeded, the file holds the cached configuration.
C26_FileEqualsCache ==
    (/\ AllReturned
     /\ \E i \in DOMAIN calls : calls[i].kind = "set"
     /\ \A i \in DOMAIN calls : calls[i].kind = "set" => calls[i].written)
    => storageFile = StringifyConfig(cachedConfig)

(***************************************************************************)
(* setRuntimeConfig and POST /api/settings                                 *)
(***************************************************************************)
\* With one setRuntimeConfig call at a time: a call that completes, whether
\* its write succeeded or failed, leaves the values it assigned in memory,
\* nothing but a later setRuntimeConfig replaces a loaded configuration, and
\* a webhook request that reads the configuration gets the cached values.
SequentialUpdateSurvives ==
    [][/\ (setCall # NullObject /\ setCall.pc = "persist" /\ setCall' = NullObject)
            => /\ cachedConfig' = setCall.config
               /\ cachedConfig' = Updated(setCall.partial, cachedConfig')
       /\ (cachedConfig # NullObject /\ cachedConfig' # cachedConfig)
            => (setCall # NullObject /\ setCall.pc = "update")
       /\ (pc = "getRuntimeConfig" /\ pc' # pc /\ cachedConfig # NullObject)
            => /\ webhookSecret' = cachedConfig.jicooSecret
               /\ slackWebhookUrl' = cachedConfig.slackWebhookUrl]_vars

\* setRuntimeConfig replaced the secret and returned, the file was not
\* written and still holds the old secret, and a request signed with the new
\* secret has been accepted.
FailedWriteKeptInMemory ==
    /\ setCall = NullObject /\ updates = 1
    /\ storageFile = StringifyConfig([slackWebhookUrl |-> SinkUrl, jicooSecret |-> SecretA])
    /\ cachedConfig = [slackWebhookUrl |-> SinkUrl, jicooSecret |-> SecretB]
    /\ webhookSecret = SecretB
    /\ pc = "done" /\ response = OkResponse

\* No other call of setRuntimeConfig than `i` gives a value for `key`.
OnlySetterOf(i, key) ==
    \A j \in DOMAIN calls :
        (j # i /\ calls[j].kind = "set") => calls[j].partial[key] = ABSENT

\* C23: once a setRuntimeConfig call has returned, with its write succeeded
\* or failed, the cached configuration (what every later getRuntimeConfig
\* resolves to) has the value the call gave for each key that no other call
\* sets.
C23_CompletedUpdateVisible ==
    \A i \in DOMAIN calls :
        (calls[i].kind = "set" /\ calls[i].pc = "returned")
            => \A key \in {"slackWebhookUrl", "jicooSecret"} :
                  (calls[i].partial[key] # ABSENT /\ OnlySetterOf(i, key))
                      => cachedConfig[key] = calls[i].partial[key]

\* The body of a settings POST has a slackWebhookUrl that is a non-blank
\* string and not an http(s) URL.
InvalidSlackWebhookUrl(body) ==
    /\ body.type = "object"
    /\ "slackWebhookUrl" \in DOMAIN body.fields
    /\ body.fields["slackWebhookUrl"].type = "string"
    /\ Trim(body.fields["slackWebhookUrl"].str) # <<>>
    /\ URLProtocol(Trim(body.fields["slackWebhookUrl"].str)) \notin {<<"https:">>, <<"http:">>}

\* C24: a settings POST whose slackWebhookUrl is non-blank and not an
\* http(s) URL is answered 400 "Invalid Slack webhook URL" and changes
\* neither the cached nor the persisted configuration nor starts an update,
\* whatever jicooSecret it carries.
C24_InvalidUrlRejected ==
    [][(SettingsInFlight /\ settingsResponse' # NullObject
            /\ InvalidSlackWebhookUrl(settingsBody))
         => /\ settingsResponse' = SettingsError(400, "Invalid Slack webhook URL")
            /\ cachedConfig' = cachedConfig
            /\ storageFile' = storageFile
            /\ setCall' = setCall]_vars

\* C24 witness: a POST with an ftp URL and a valid secret got the 400 while
\* the configuration in memory and the file keep another secret.
C24_Witness ==
    /\ settingsResponse = SettingsError(400, "Invalid Slack webhook URL")
    /\ settingsBody = JObject(Field("slackWebhookUrl", JString(FtpUrl))
                              @@ Field("jicooSecret", JString(SecretB)))
    /\ setCall = NullObject
    /\ cachedConfig # NullObject
    /\ cachedConfig.jicooSecret = NULL
    /\ storageFile = StringifyConfig([slackWebhookUrl |-> SinkUrlB, jicooSecret |-> NULL])

====
